---- MODULE Spec2Model ----
(***************************************************************************)
(* The static-analysis engine of the AI code reviewer (backend/analyzer):  *)
(* analyze_code runs, for each file of a {path: text} mapping, the         *)
(* Security, Performance and CodeQuality analyzers.  Each analyzer splits  *)
(* the text on line feeds, parses it, and walks the tree with an           *)
(* ast.NodeVisitor subclass that appends Finding records.                  *)
(*                                                                         *)
(* A str is a sequence of one-character strings.  A file is described by   *)
(* its lines (indentation, statement, line terminator); its text and the   *)
(* tree that ast.parse returns for that text are both derived from that    *)
(* description.  The traversal is modelled one callback entry or exit per  *)
(* step, with the interpreter's call stack as an explicit stack.           *)
(***************************************************************************)
EXTENDS Integers, Sequences, FiniteSets, TLC

\* ------------------------------------------------------------------ state
VARIABLES
  calls,         \* the {path: text} mappings the caller passes, one per call
  run,           \* number of calls of analyze_code made so far
  results,       \* what each finished call gave: a findings list or an exception
  pc,            \* where analyze_code stands
  fi,            \* position of the for loop of analyze_code in files.items()
  all_findings,  \* analyze_code's all_findings
  analyzer,      \* the analyzer whose analyze() is running
  findings,      \* the local findings list of that analyze()
  tree,          \* the tree that analyze() parsed
  visitor,       \* the visitor object: filename, lines, findings and counters
  stack,         \* the visit() calls in progress: node, next child, old_async
  log,           \* history: for every finding created in this call, in order of
                 \* creation, the file, the analyzer, the node whose callback
                 \* appended it (by) and the node it reports (at); 0 for text
  tasks,         \* the per-file analyses run as tasks of their own, each with
                 \* the local variables of its analyze() calls
  review         \* LLMReviewer.enhance_findings on the findings of the call:
                 \* its position, the batch in progress and the list enhanced

\* the variables of the sequential run of analyze_code
run_vars == << calls, run, results, pc, fi, all_findings, analyzer, findings, tree,
               visitor, stack, log >>

vars == << run_vars, tasks, review >>

\* ------------------------------------------------------------------ str
Max(a, b) == IF a > b THEN a ELSE b
Min(a, b) == IF a < b THEN a ELSE b

UpperLetters ==
  << "A","B","C","D","E","F","G","H","I","J","K","L","M",
     "N","O","P","Q","R","S","T","U","V","W","X","Y","Z" >>
LowerLetters ==
  << "a","b","c","d","e","f","g","h","i","j","k","l","m",
     "n","o","p","q","r","s","t","u","v","w","x","y","z" >>
Letters == { UpperLetters[i] : i \in 1..26 } \cup { LowerLetters[i] : i \in 1..26 }
Digits == { "0","1","2","3","4","5","6","7","8","9" }
\* str.strip() / rstrip() without argument, and the regex class \s
Whitespace == { " ", "\t", "\n", "\r", "\f" }
Quotes == { "\"", "'" }

\* case folding of one character (re.IGNORECASE)
lower(c) ==
  IF \E i \in 1..26 : UpperLetters[i] = c
  THEN LowerLetters[CHOOSE i \in 1..26 : UpperLetters[i] = c]
  ELSE c

RECURSIVE lstrip(_)
lstrip(s) == IF s # <<>> /\ Head(s) \in Whitespace THEN lstrip(Tail(s)) ELSE s

RECURSIVE rstrip(_)
rstrip(s) ==
  IF s # <<>> /\ s[Len(s)] \in Whitespace
  THEN rstrip(SubSeq(s, 1, Len(s) - 1))
  ELSE s

strip(s) == lstrip(rstrip(s))

\* code.split('\n')
RECURSIVE split(_, _)
split(s, sep) ==
  IF \E i \in 1..Len(s) : s[i] = sep
  THEN LET i == CHOOSE i \in 1..Len(s) :
                  s[i] = sep /\ \A j \in 1..(i - 1) : s[j] # sep
       IN  << SubSeq(s, 1, i - 1) >> \o split(SubSeq(s, i + 1, Len(s)), sep)
  ELSE << s >>

\* s[:n].count(c), n characters of s
count(s, n, c) == Cardinality({ i \in 1..Min(n, Len(s)) : s[i] = c })

\* sep.join(xs)
RECURSIVE join(_, _)
join(sep, xs) ==
  IF xs = <<>> THEN <<>>
  ELSE IF Len(xs) = 1 THEN xs[1]
  ELSE xs[1] \o sep \o join(sep, Tail(xs))

Seq2Set(s) == { s[i] : i \in 1..Len(s) }

\* name.startswith('_')
startswith(s, c) == s # <<>> /\ s[1] = c

\* ------------------------------------------------------------ models.py
SECURITY == "Security"
PERFORMANCE == "Performance"
CODE_QUALITY == "Code Quality"
IssueCategory == { SECURITY, PERFORMANCE, CODE_QUALITY }

\* An issue text is its f-string template with the interpolated values.
Issue(template, args) == [ text |-> template, args |-> args ]

\* ------------------------------------------------- static_rules.BaseAnalyzer
context_size == 3

\* the block starting one line late
get_code_context_late(lines, line_number) ==
  LET start == Max(0, line_number - context_size)
      end == Min(Len(lines), line_number + context_size)
      context_lines ==
        [ k \in 1..Max(0, end - start) |->
            (IF start + k = line_number
             THEN << ">", ">", ">", " " >>
             ELSE << " ", " ", " ", " " >>) \o rstrip(lines[start + k]) ]
  IN  join(<< "\n" >>, context_lines)

get_code_context(lines, line_number) ==
  LET start == Max(0, line_number - context_size - 1)
      end == Min(Len(lines), line_number + context_size)
      \* range(start, end) is 0-based; lines is 1-based here
      context_lines ==
        [ k \in 1..Max(0, end - start) |->
            (IF start + k = line_number
             THEN << ">", ">", ">", " " >>
             ELSE << " ", " ", " ", " " >>) \o rstrip(lines[start + k]) ]
  IN  join(<< "\n" >>, context_lines)

create_finding(file, line, issue, category, code_snippet, context) ==
  [ file |-> file, line |-> line, issue |-> issue, category |-> category,
    code_snippet |-> code_snippet, context |-> context ]

\* ---------------------------------------------- security_rules (text patterns)
\* re.IGNORECASE match of the literal lit at position i of code
LitAt(code, i, lit) ==
  /\ i >= 1
  /\ i + Len(lit) - 1 <= Len(code)
  /\ \A k \in 1..Len(lit) : lower(code[i + k - 1]) = lower(lit[k])

\* first position at or after i that does not hold a \s character
RECURSIVE SkipSpace(_, _)
SkipSpace(code, i) ==
  IF i <= Len(code) /\ code[i] \in Whitespace THEN SkipSpace(code, i + 1) ELSE i

\* position after the key name: the pieces in order, [_-]? between two pieces;
\* 0 when the name does not match at i
RECURSIVE NameEnd(_, _, _)
NameEnd(code, i, pieces) ==
  IF pieces = <<>> THEN i
  ELSE IF ~LitAt(code, i, Head(pieces)) THEN 0
  ELSE LET j == i + Len(Head(pieces))
           k == IF Len(pieces) > 1 /\ j <= Len(code) /\ code[j] \in { "_", "-" }
                THEN j + 1 ELSE j
       IN  NameEnd(code, k, Tail(pieces))

WordClass == Letters \cup Digits \cup { "_", "-" }     \* [A-Za-z0-9_-]
AwsClass == Letters \cup Digits                        \* [A-Z0-9], IGNORECASE

\* length of the longest run of characters of cls that starts at i
RECURSIVE RunLen(_, _, _)
RunLen(code, i, cls) ==
  IF i <= Len(code) /\ code[i] \in cls THEN 1 + RunLen(code, i + 1, cls) ELSE 0

api  == << "a","p","i" >>
key  == << "k","e","y" >>
\* (pattern, message) pairs of _check_hardcoded_secrets; body is the class of
\* the quoted group, with its minimum length and whether the length is exact
patterns ==
  << [ name |-> << api, key >>, body |-> "word", min |-> 20, exact |-> FALSE,
       message |-> "Hardcoded API key detected" ],
     [ name |-> << << "p","a","s","s","w","o","r","d" >> >>,
       body |-> "any", min |-> 3, exact |-> FALSE,
       message |-> "Hardcoded password detected" ],
     [ name |-> << << "s","e","c","r","e","t" >>, key >>,
       body |-> "any", min |-> 10, exact |-> FALSE,
       message |-> "Hardcoded secret key detected" ],
     [ name |-> << << "t","o","k","e","n" >> >>,
       body |-> "word", min |-> 20, exact |-> FALSE,
       message |-> "Hardcoded token detected" ],
     [ name |-> << << "a","w","s" >>, << "a","c","c","e","s","s" >>, key,
                   << "i","d" >> >>,
       body |-> "aws", min |-> 20, exact |-> TRUE,
       message |-> "Hardcoded AWS access key detected" ] >>

\* end of a quoted body that starts at b:  (.{min,}) ["']  is greedy, the
\* closing quote is the last one of the line
AnyBodyEnd(p, code, b) ==
  IF \E c \in (b + p.min)..Len(code) :
       code[c] \in Quotes /\ \A k \in b..(c - 1) : code[k] # "\n"
  THEN CHOOSE c \in (b + p.min)..Len(code) :
         /\ code[c] \in Quotes /\ \A k \in b..(c - 1) : code[k] # "\n"
         /\ \A d \in (c + 1)..Len(code) :
              ~(code[d] \in Quotes /\ \A k \in b..(d - 1) : code[k] # "\n")
  ELSE 0

\* the closing quote only after a run longer than the minimum
ClassBodyEnd_longer(p, code, b, runlen, len) ==
  IF runlen > p.min /\ b + len <= Len(code) /\ code[b + len] \in Quotes
  THEN b + len ELSE 0

\* end of a quoted body that starts at b:  ([class]{min,}) ["']  takes the
\* whole run of the class, ([class]{min}) ["'] takes min characters of it
ClassBodyEnd(p, code, b, runlen, len) ==
  IF runlen >= p.min /\ b + len <= Len(code) /\ code[b + len] \in Quotes
  THEN b + len ELSE 0

BodyClass(p) == IF p.body = "aws" THEN AwsClass ELSE WordClass

BodyEnd(p, code, b) ==
  IF b = 0 THEN 0
  ELSE IF p.body = "any" THEN AnyBodyEnd(p, code, b)
  ELSE ClassBodyEnd(p, code, b, RunLen(code, b, BodyClass(p)),
                    IF p.exact THEN p.min ELSE RunLen(code, b, BodyClass(p)))

\* position after the opening quote at q, 0 when there is none
AfterQuote(code, q) ==
  IF q = 0 \/ q > Len(code) \/ code[q] \notin Quotes THEN 0 ELSE q + 1

\* position after  \s* = \s*  that starts at n, 0 when there is none
AfterEquals(code, e) ==
  IF e = 0 \/ e > Len(code) \/ code[e] # "=" THEN 0 ELSE SkipSpace(code, e + 1)

AfterName(code, n) == IF n = 0 THEN 0 ELSE SkipSpace(code, n)

\* index of the last character of the match of pattern p that starts at i,
\* 0 when there is none:  name \s* = \s* ["'] (body) ["']
SecretMatchEnd(p, code, i) ==
  BodyEnd(p, code,
          AfterQuote(code, AfterEquals(code, AfterName(code, NameEnd(code, i, p.name)))))

Least(S) == CHOOSE i \in S : \A j \in S : i <= j

\* start positions of re.finditer(pattern, code) from position pos on
RECURSIVE SecretFindIter(_, _, _)
SecretFindFrom(p, code, starts) ==
  IF starts = {} THEN <<>>
  ELSE << Least(starts) >>
         \o SecretFindIter(p, code, SecretMatchEnd(p, code, Least(starts)) + 1)

SecretFindIter(p, code, pos) ==
  SecretFindFrom(p, code, { i \in pos..Len(code) : SecretMatchEnd(p, code, i) # 0 })

\* the whole line as the snippet, not trimmed
TextFinding_untrimmed(filename, lines, line_num, message) ==
  create_finding(filename, line_num, Issue(message, <<>>), SECURITY,
                 lines[line_num], get_code_context(lines, line_num))

\* the finding of a match at text line line_num
TextFinding(filename, lines, line_num, message) ==
  create_finding(filename, line_num, Issue(message, <<>>), SECURITY,
                 strip(lines[line_num]), get_code_context(lines, line_num))

\* findings of the matches that start at ms:
\* line_num = code[:match.start()].count('\n') + 1
MatchFindings(filename, code, lines, message, ms) ==
  [ k \in 1..Len(ms) |->
      TextFinding(filename, lines, count(code, ms[k] - 1, "\n") + 1, message) ]

SecretFindings(filename, code, lines, p) ==
  MatchFindings(filename, code, lines, p.message, SecretFindIter(p, code, 1))

RECURSIVE SecretLoop(_, _, _, _)
SecretLoop(filename, code, lines, ps) ==
  IF ps = <<>> THEN <<>>
  ELSE SecretFindings(filename, code, lines, Head(ps))
       \o SecretLoop(filename, code, lines, Tail(ps))

_check_hardcoded_secrets(filename, code, lines) ==
  SecretLoop(filename, code, lines, patterns)

SqlVerbs ==
  << << "S","E","L","E","C","T" >>, << "I","N","S","E","R","T" >>,
     << "U","P","D","A","T","E" >>, << "D","E","L","E","T","E" >>,
     << "D","R","O","P" >> >>
SqlKeywords ==
  << << "W","H","E","R","E" >>, << "F","R","O","M" >>, << "I","N","T","O" >>,
     << "V","A","L","U","E","S" >> >>

\* the alternative of alts that matches at i (0 when none): alternation is
\* ordered, the first alternative that matches is taken
AltAt(code, i, alts) ==
  IF \E a \in 1..Len(alts) : LitAt(code, i, alts[a])
  THEN CHOOSE a \in 1..Len(alts) :
         /\ LitAt(code, i, alts[a])
         /\ \A b \in 1..(a - 1) : ~LitAt(code, i, alts[b])
  ELSE 0

\* no line feed in code[a..b]: what  .*?  can span
NoLineFeed(code, a, b) == \A k \in a..b : code[k] # "\n"

Concat == { "+", "%" }

\* the keyword positions k that a match whose verb ends before a can end in:
\* [+%] and no line feed lie between a and k
SqlEnds(code, a) ==
  { k \in (a + 1)..Len(code) :
      /\ AltAt(code, k, SqlKeywords) # 0
      /\ NoLineFeed(code, a, k - 1)
      /\ \E j \in a..(k - 1) : code[j] \in Concat }

\* the first [+%] from a on that has a keyword of kws after it
FirstConcat(code, a, kws) ==
  CHOOSE j \in a..Len(code) :
    /\ code[j] \in Concat
    /\ \E k \in kws : k > j
    /\ \A h \in a..(j - 1) : ~(code[h] \in Concat /\ \E k \in kws : k > h)

\* last character of the first keyword of kws after j
KeywordEnd(code, kws, j) ==
  Least({ k \in kws : k > j })
    + Len(SqlKeywords[AltAt(code, Least({ k \in kws : k > j }), SqlKeywords)]) - 1

SqlTail(code, a, kws) ==
  IF kws = {} THEN 0 ELSE KeywordEnd(code, kws, FirstConcat(code, a, kws))

SqlAfterVerb(code, i, v) ==
  IF v = 0 THEN 0
  ELSE SqlTail(code, i + Len(SqlVerbs[v]), SqlEnds(code, i + Len(SqlVerbs[v])))

\* index of the last character of the match that starts at i, 0 when none:
\* (VERB) .*? [+%] .*? (KEYWORD); both .*? are lazy
SqlMatchEnd(code, i) == SqlAfterVerb(code, i, AltAt(code, i, SqlVerbs))

RECURSIVE SqlFindIter(_, _)
SqlFindFrom(code, starts) ==
  IF starts = {} THEN <<>>
  ELSE << Least(starts) >> \o SqlFindIter(code, SqlMatchEnd(code, Least(starts)) + 1)

SqlFindIter(code, pos) ==
  SqlFindFrom(code, { i \in pos..Len(code) : SqlMatchEnd(code, i) # 0 })

_check_sql_injection(filename, code, lines) ==
  MatchFindings(filename, code, lines,
                "Potential SQL injection: SQL query uses string concatenation",
                SqlFindIter(code, 1))

\* --------------------------------------------------------- source files
\* A file is a sequence of one-line statements [indent, form], where a form
\* gives the statement's text and the nodes ast.parse builds for it (fields
\* in _fields order; expr_context and operator leaves, which no visitor
\* handles and which have no children, are left out).  up = 0 attaches a
\* node to the enclosing block, up = k to the k-th node of the same form.
NoConst == [ type |-> "", value |-> <<>> ]
T(kind, up, field, name, const) ==
  [ kind |-> kind, up |-> up, field |-> field, name |-> name, const |-> const ]
Form(text, block, nodes) == [ text |-> text, block |-> block, nodes |-> nodes ]

IntConst(c) == [ type |-> "int", value |-> << c >> ]
StrConst(v) == [ type |-> "str", value |-> v ]
TrueConst == [ type |-> "bool", value |-> << "T","r","u","e" >> ]

nm_i == << "i" >>
nm_xs == << "x","s" >>
nm_f == << "f" >>
nm__f == << "_","f" >>
nm_sleep == << "s","l","e","e","p" >>
nm_asyncio == << "a","s","y","n","c","i","o" >>
nm_time == << "t","i","m","e" >>
nm_append == << "a","p","p","e","n","d" >>
nm_eval == << "e","v","a","l" >>
nm_read == << "r","e","a","d" >>

PassStmt == Form(<< "p","a","s","s" >>, FALSE, << T("Pass", 0, "body", <<>>, NoConst) >>)

\* for i in xs:
ForStmt ==
  Form(<< "f","o","r"," ","i"," ","i","n"," ","x","s",":" >>, TRUE,
       << T("For", 0, "body", <<>>, NoConst),
          T("Name", 1, "target", nm_i, NoConst),
          T("Name", 1, "iter", nm_xs, NoConst) >>)

\* while i:
WhileStmt ==
  Form(<< "w","h","i","l","e"," ","i",":" >>, TRUE,
       << T("While", 0, "body", <<>>, NoConst),
          T("Name", 1, "test", nm_i, NoConst) >>)

\* if i:
IfStmt ==
  Form(<< "i","f"," ","i",":" >>, TRUE,
       << T("If", 0, "body", <<>>, NoConst),
          T("Name", 1, "test", nm_i, NoConst) >>)

\* if i and j:      if i and j and k:
IfAndStmt(operands) ==
  Form(<< "i","f"," ","i" >>
         \o (IF operands >= 2 THEN << " ","a","n","d"," ","j" >> ELSE <<>>)
         \o (IF operands >= 3 THEN << " ","a","n","d"," ","k" >> ELSE <<>>)
         \o << ":" >>, TRUE,
       << T("If", 0, "body", <<>>, NoConst),
          T("BoolOp", 1, "test", <<>>, NoConst) >>
       \o SubSeq(<< T("Name", 2, "values", << "i" >>, NoConst),
                    T("Name", 2, "values", << "j" >>, NoConst),
                    T("Name", 2, "values", << "k" >>, NoConst) >>, 1, operands))

\* def f():      def _f():
DefStmt(name) ==
  Form(<< "d","e","f"," " >> \o name \o << "(",")",":" >>, TRUE,
       << T("FunctionDef", 0, "body", name, NoConst),
          T("arguments", 1, "args", <<>>, NoConst) >>)

\* async def f():
AsyncDefStmt(name) ==
  Form(<< "a","s","y","n","c"," ","d","e","f"," " >> \o name \o << "(",")",":" >>,
       TRUE,
       << T("AsyncFunctionDef", 0, "body", name, NoConst),
          T("arguments", 1, "args", <<>>, NoConst) >>)

\* class C:      class _C:
ClassStmt(name) ==
  Form(<< "c","l","a","s","s"," " >> \o name \o << ":" >>, TRUE,
       << T("ClassDef", 0, "body", name, NoConst) >>)

\* "literal" as a statement of its own: a docstring when it opens a body
DocStmt(literal) ==
  Form(<< "\"" >> \o literal \o << "\"" >>, FALSE,
       << T("Expr", 0, "body", <<>>, NoConst),
          T("Constant", 1, "value", <<>>, StrConst(literal)) >>)

\* NAME =      with nothing after it: no statement, the parser rejects it
HalfAssignStmt(name) == Form(name \o << " ","=" >>, FALSE, <<>>)

\* try:        except:
TryStmt == Form(<< "t","r","y",":" >>, TRUE, << T("Try", 0, "body", <<>>, NoConst) >>)
ExceptStmt ==
  Form(<< "e","x","c","e","p","t",":" >>, TRUE,
       << T("ExceptHandler", 0, "handlers", <<>>, NoConst) >>)

\* recv.attr(5), e.g. time.sleep(5); with await: await asyncio.sleep(5)
AttrCallStmt(recv, attr, await) ==
  LET a == IF await THEN 1 ELSE 0
  IN  Form((IF await THEN << "a","w","a","i","t"," " >> ELSE <<>>)
             \o recv \o << "." >> \o attr \o << "(","5",")" >>, FALSE,
           << T("Expr", 0, "body", <<>>, NoConst) >>
           \o (IF await THEN << T("Await", 1, "value", <<>>, NoConst) >> ELSE <<>>)
           \o << T("Call", 1 + a, "value", <<>>, NoConst),
                 T("Attribute", 2 + a, "func", attr, NoConst),
                 T("Name", 3 + a, "value", recv, NoConst),
                 T("Constant", 2 + a, "args", <<>>, IntConst("5")) >>)

\* func(i), e.g. eval(i), sleep(i)
NameCallStmt(func) ==
  Form(func \o << "(","i",")" >>, FALSE,
       << T("Expr", 0, "body", <<>>, NoConst),
          T("Call", 1, "value", <<>>, NoConst),
          T("Name", 2, "func", func, NoConst),
          T("Name", 2, "args", nm_i, NoConst) >>)

\* NAME = "literal"  (the quote character is given)
AssignStrStmt(name, quote, literal) ==
  Form(name \o << " ","="," ", quote >> \o literal \o << quote >>, FALSE,
       << T("Assign", 0, "body", <<>>, NoConst),
          T("Name", 1, "targets", name, NoConst),
          T("Constant", 1, "value", <<>>, StrConst(literal)) >>)

\* xs = "left" + i      xs = "left" + i + "right"      (op is + or %)
ConcatStmt(left, op, right) ==
  IF right = <<>>
  THEN Form(nm_xs \o << " ","="," ","\"" >> \o left \o << "\""," ", op, " ","i" >>,
            FALSE,
            << T("Assign", 0, "body", <<>>, NoConst),
               T("Name", 1, "targets", nm_xs, NoConst),
               T("BinOp", 1, "value", <<>>, NoConst),
               T("Constant", 3, "left", <<>>, StrConst(left)),
               T("Name", 3, "right", nm_i, NoConst) >>)
  ELSE Form(nm_xs \o << " ","="," ","\"" >> \o left \o << "\""," ", op, " ","i" >>
              \o << " ", op, " ","\"" >> \o right \o << "\"" >>,
            FALSE,
            << T("Assign", 0, "body", <<>>, NoConst),
               T("Name", 1, "targets", nm_xs, NoConst),
               T("BinOp", 1, "value", <<>>, NoConst),
               T("BinOp", 3, "left", <<>>, NoConst),
               T("Constant", 4, "left", <<>>, StrConst(left)),
               T("Name", 4, "right", nm_i, NoConst),
               T("Constant", 3, "right", <<>>, StrConst(right)) >>)

\* the source of a generator of a comprehension: the name xs, or (nested)
\* the list comprehension [j for j in xs]
SourceText(nested) ==
  IF nested THEN << "[","j"," ","f","o","r"," ","j"," ","i","n"," ","x","s","]" >>
  ELSE nm_xs

\* the nodes of the generator  for target in source  of the comprehension
\* that is node 3 of the form, base nodes coming before them
GeneratorNodes(base, target, nested) ==
  << T("comprehension", 3, "generators", <<>>, NoConst),
     T("Name", base + 1, "target", target, NoConst) >>
  \o (IF nested
      THEN << T("ListComp", base + 1, "iter", <<>>, NoConst),
              T("Name", base + 3, "elt", << "j" >>, NoConst),
              T("comprehension", base + 3, "generators", <<>>, NoConst),
              T("Name", base + 5, "target", << "j" >>, NoConst),
              T("Name", base + 5, "iter", nm_xs, NoConst) >>
      ELSE << T("Name", base + 1, "iter", nm_xs, NoConst) >>)

\* xs = [i for i in S]      xs = [i for i in S for k in S2]
\* (sources tells, for each generator, whether its source is nested)
ListCompStmt(sources) ==
  Form(nm_xs \o << " ","="," ","[","i"," ","f","o","r"," ","i"," ","i","n"," " >>
         \o SourceText(sources[1])
         \o (IF Len(sources) > 1
             THEN << " ","f","o","r"," ","k"," ","i","n"," " >> \o SourceText(sources[2])
             ELSE <<>>)
         \o << "]" >>, FALSE,
       << T("Assign", 0, "body", <<>>, NoConst),
          T("Name", 1, "targets", nm_xs, NoConst),
          T("ListComp", 1, "value", <<>>, NoConst),
          T("Name", 3, "elt", nm_i, NoConst) >>
       \o GeneratorNodes(4, nm_i, sources[1])
       \o (IF Len(sources) > 1
           THEN GeneratorNodes(4 + Len(GeneratorNodes(4, nm_i, sources[1])),
                               << "k" >>, sources[2])
           ELSE <<>>))

\* the callee of a call that is node c of its form: the bare name func, or
\* the attribute func on the names of recv (os.system, xs.os.system)
CalleeNodes(c, recv, func) ==
  IF recv = <<>> THEN << T("Name", c, "func", func, NoConst) >>
  ELSE IF Len(recv) = 1
  THEN << T("Attribute", c, "func", func, NoConst),
          T("Name", c + 1, "value", recv[1], NoConst) >>
  ELSE << T("Attribute", c, "func", func, NoConst),
          T("Attribute", c + 1, "value", recv[2], NoConst),
          T("Name", c + 2, "value", recv[1], NoConst) >>

\* the keyword argument shell=<const> of the call that is node c, node k of
\* the form being the keyword; none when const is NoConst
ShellNodes(c, k, const) ==
  IF const = NoConst THEN <<>>
  ELSE << T("keyword", c, "keywords", << "s","h","e","l","l" >>, NoConst),
          T("Constant", k, "value", <<>>, const) >>

\* func(i)   recv.func(i)   recv.func(i, shell=True)   print(recv.func(i))
CallStmt(recv, func, shell, wrapped) ==
  LET c == IF wrapped THEN 4 ELSE 2
  IN  Form((IF wrapped THEN << "p","r","i","n","t","(" >> ELSE <<>>)
             \o join(<< "." >>, recv \o << func >>) \o << "(","i" >>
             \o (IF shell = NoConst THEN <<>>
                 ELSE << ","," ","s","h","e","l","l","=" >> \o shell.value)
             \o << ")" >> \o (IF wrapped THEN << ")" >> ELSE <<>>),
           FALSE,
           << T("Expr", 0, "body", <<>>, NoConst) >>
           \o (IF wrapped
               THEN << T("Call", 1, "value", <<>>, NoConst),
                       T("Name", 2, "func", << "p","r","i","n","t" >>, NoConst),
                       T("Call", 2, "args", <<>>, NoConst) >>
               ELSE << T("Call", 1, "value", <<>>, NoConst) >>)
           \o CalleeNodes(c, recv, func)
           \o << T("Name", c, "args", nm_i, NoConst) >>
           \o ShellNodes(c, c + Len(CalleeNodes(c, recv, func)) + 2, shell))

\* xx = -----...-1 with thousands of unary minus signs, which the text here
\* abbreviates to one: ast.parse gives up with RecursionError ("maximum
\* recursion depth exceeded during ast construction")
DeepStmt ==
  [ text |-> << "x","x"," ","="," ","-","1" >>, block |-> FALSE, nodes |-> <<>>,
    deep |-> TRUE ]

IsDeep(form) == "deep" \in DOMAIN form

Stmt(indent, form) == [ indent |-> indent, form |-> form ]
\* eol is the line terminator the file uses between its lines
File(name, stmts, eol) == [ name |-> name, stmts |-> stmts, eol |-> eol ]

LF == << "\n" >>
CR == << "\r" >>

RECURSIVE Spaces(_)
Spaces(n) == IF n = 0 THEN <<>> ELSE << " " >> \o Spaces(n - 1)

\* the text of the file: what the mapping {path: text} holds
Code(file) ==
  join(file.eol, [ k \in 1..Len(file.stmts) |->
                     Spaces(file.stmts[k].indent) \o file.stmts[k].form.text ])

\* ------------------------------------------------------------ ast.parse
NoPosition == { "Module", "arguments", "comprehension" }
FirstKind(form) == IF form.nodes = <<>> THEN "" ELSE form.nodes[1].kind

\* the statement before k in the same block (0 when k opens its block)
PrevSibling(stmts, k) ==
  LET c == { j \in 1..(k - 1) :
               /\ stmts[j].indent = stmts[k].indent
               /\ \A m \in (j + 1)..(k - 1) : stmts[m].indent > stmts[k].indent }
  IN  IF c = {} THEN 0 ELSE CHOOSE j \in c : TRUE

NextSibling(stmts, k) ==
  LET c == { j \in (k + 1)..Len(stmts) :
               /\ stmts[j].indent = stmts[k].indent
               /\ \A m \in (k + 1)..(j - 1) : stmts[m].indent > stmts[k].indent }
  IN  IF c = {} THEN 0 ELSE CHOOSE j \in c : TRUE

\* the grammar of the statements above: a block opener is followed by a
\* deeper line, nothing else is; a line that builds no node is no statement;
\* except: follows the body of try:, which needs one
WellFormed(stmts) ==
  /\ stmts # <<>> => stmts[1].indent = 0
  /\ \A k \in 2..Len(stmts) :
       IF stmts[k - 1].form.block
       THEN stmts[k].indent = stmts[k - 1].indent + 1
       ELSE stmts[k].indent <= stmts[k - 1].indent
  /\ stmts # <<>> => ~stmts[Len(stmts)].form.block
  /\ \A k \in 1..Len(stmts) :
       /\ stmts[k].form.nodes # <<>>
       /\ FirstKind(stmts[k].form) = "ExceptHandler" =>
            /\ PrevSibling(stmts, k) # 0
            /\ FirstKind(stmts[PrevSibling(stmts, k)].form) = "Try"
       /\ FirstKind(stmts[k].form) = "Try" =>
            /\ NextSibling(stmts, k) # 0
            /\ FirstKind(stmts[NextSibling(stmts, k)].form) = "ExceptHandler"

Node(kind, lineno, parent, field, name, const) ==
  [ kind |-> kind, lineno |-> lineno, end_lineno |-> lineno, parent |-> parent,
    field |-> field, name |-> name, const |-> const ]

\* the last node attached so far to node owner
LastChild(nodes, owner) ==
  CHOOSE j \in 1..Len(nodes) :
    nodes[j].parent = owner /\ \A m \in (j + 1)..Len(nodes) : nodes[m].parent # owner

\* nodes in the order the parser creates them; open[d + 1] is the node that
\* owns the block at indentation d
RECURSIVE Build(_, _, _, _)
Build(stmts, k, nodes, open) ==
  IF k > Len(stmts) THEN nodes
  ELSE LET d == stmts[k].indent
           form == stmts[k].form
           base == Len(nodes)
           attach == IF FirstKind(form) = "ExceptHandler"
                     THEN LastChild(nodes, open[d + 1])
                     ELSE open[d + 1]
           new == [ m \in 1..Len(form.nodes) |->
                    LET t == form.nodes[m]
                    IN  Node(t.kind,
                             IF t.kind \in NoPosition THEN 0 ELSE k,
                             IF t.up = 0 THEN attach ELSE base + t.up,
                             t.field, t.name, t.const) ]
       IN  Build(stmts, k + 1, nodes \o new,
                 SubSeq(open, 1, d + 1)
                   \o (IF form.block THEN << base + 1 >> ELSE <<>>))

\* node and all nodes below it
RECURSIVE Under(_, _, _)
Under(nodes, n, m) ==
  IF m = n THEN TRUE
  ELSE IF m = 0 THEN FALSE
  ELSE Under(nodes, n, nodes[m].parent)

EndLine(nodes, n) ==
  LET ls == { nodes[m].lineno : m \in { j \in 1..Len(nodes) : Under(nodes, n, j) } }
  IN  CHOOSE l \in ls : \A h \in ls : h <= l

\* ast.parse(code): the tree, or the exception it raises
Parse(file) ==
  IF \E k \in 1..Len(file.stmts) : IsDeep(file.stmts[k].form)
  THEN [ status |-> "RecursionError", tree |-> <<>> ]
  ELSE IF ~WellFormed(file.stmts)
  THEN [ status |-> "SyntaxError", tree |-> <<>> ]
  ELSE LET nodes == Build(file.stmts, 1,
                          << Node("Module", 0, 0, "", <<>>, NoConst) >>, << 1 >>)
       IN  [ status |-> "ok",
             tree |-> [ n \in 1..Len(nodes) |->
                        IF nodes[n].kind \in NoPosition THEN nodes[n]
                        ELSE [ nodes[n] EXCEPT !.end_lineno = EndLine(nodes, n) ] ] ]

\* ----------------------------------------------------------- ast helpers
None == <<>>

\* ast.iter_child_nodes(node), in field order
Children(t, n) ==
  SelectSeq([ i \in 1..Len(t) |-> i ], LAMBDA i : t[i].parent = n)

\* the child nodes held by one field of node n (node.func, node.keywords, ...)
FieldNodes(t, n, f) ==
  SelectSeq(Children(t, n), LAMBDA i : t[i].field = f)

\* ast.walk(node): breadth-first, the node itself first
RECURSIVE WalkQueue(_, _)
WalkQueue(t, todo) ==
  IF todo = <<>> THEN <<>>
  ELSE << Head(todo) >> \o WalkQueue(t, Tail(todo) \o Children(t, Head(todo)))

walk(t, n) == WalkQueue(t, << n >>)

\* ast.get_docstring(node): the cleaned text of a leading string-literal
\* statement, None when there is none (cleandoc leaves nothing of a blank one)
get_docstring(t, n) ==
  LET body == FieldNodes(t, n, "body")
      val == IF body = <<>> THEN <<>> ELSE FieldNodes(t, body[1], "value")
  IN  IF /\ body # <<>>
         /\ t[body[1]].kind = "Expr"
         /\ val # <<>>
         /\ t[val[1]].kind = "Constant"
         /\ t[val[1]].const.type = "str"
      THEN strip(t[val[1]].const.value)
      ELSE None

\* ------------------------------------------------ static_rules.ASTVisitor
\* a findings list shared by all visitor objects instead of a fresh one
ASTVisitor__init__shared(filename, lines) ==
  [ filename |-> filename, lines |-> lines, findings |-> visitor.findings ]

ASTVisitor__init__(filename, lines) ==
  [ filename |-> filename, lines |-> lines, findings |-> <<>> ]

get_line_content(v, lineno) ==
  IF 0 <= lineno - 1 /\ lineno - 1 < Len(v.lines)
  THEN strip(v.lines[lineno])
  ELSE <<>>

get_context(v, lineno) == get_code_context(v.lines, lineno)

\* ------------------------------------------ security_rules.SecurityVisitor
nm_exec == << "e","x","e","c" >>
nm_loads == << "l","o","a","d","s" >>
nm_pickle == << "p","i","c","k","l","e" >>
nm_system == << "s","y","s","t","e","m" >>
nm_os == << "o","s" >>
nm_Popen == << "P","o","p","e","n" >>
nm_call == << "c","a","l","l" >>
nm_run == << "r","u","n" >>
nm_shell == << "s","h","e","l","l" >>

\* each detector gives the findings it appends to self.findings
_check_dangerous_eval_exec(v, t, node) ==
  LET func == FieldNodes(t, node, "func")[1]
  IN  IF t[func].kind = "Name" /\ t[func].name \in { nm_eval, nm_exec }
      THEN << create_finding(v.filename, t[node].lineno,
                Issue("Dangerous function '{}()' detected - can execute arbitrary code",
                      << t[func].name >>),
                SECURITY, get_line_content(v, t[node].lineno),
                get_context(v, t[node].lineno)) >>
      ELSE <<>>

\* a check that takes loads on any qualifier for pickle.loads
_check_pickle_loads_any(v, t, node) ==
  LET func == FieldNodes(t, node, "func")[1]
      is_pickle_loads ==
        t[func].kind \in { "Attribute", "Name" } /\ t[func].name = nm_loads
  IN  IF is_pickle_loads
      THEN << create_finding(v.filename, t[node].lineno,
                Issue("Use of pickle.loads() can execute arbitrary code from untrusted data",
                      <<>>),
                SECURITY, get_line_content(v, t[node].lineno),
                get_context(v, t[node].lineno)) >>
      ELSE <<>>

_check_pickle_loads(v, t, node) ==
  LET func == FieldNodes(t, node, "func")[1]
      value == FieldNodes(t, func, "value")
      is_pickle_loads ==
        IF t[func].kind = "Attribute" /\ t[func].name = nm_loads
        THEN t[value[1]].kind = "Name" /\ t[value[1]].name = nm_pickle
        ELSE t[func].kind = "Name" /\ t[func].name = nm_loads
  IN  IF is_pickle_loads
      THEN << create_finding(v.filename, t[node].lineno,
                Issue("Use of pickle.loads() can execute arbitrary code from untrusted data",
                      <<>>),
                SECURITY, get_line_content(v, t[node].lineno),
                get_context(v, t[node].lineno)) >>
      ELSE <<>>

_check_unsafe_system_calls(v, t, node) ==
  LET func == FieldNodes(t, node, "func")[1]
      value == FieldNodes(t, func, "value")
      shell == SelectSeq(FieldNodes(t, node, "keywords"),
                 LAMBDA kw :
                   /\ t[kw].name = nm_shell
                   /\ t[FieldNodes(t, kw, "value")[1]].kind = "Constant"
                   /\ t[FieldNodes(t, kw, "value")[1]].const = TrueConst)
  IN  IF t[func].kind # "Attribute" THEN <<>>
      ELSE IF /\ t[func].name = nm_system
              /\ t[value[1]].kind = "Name"
              /\ t[value[1]].name = nm_os
      THEN << create_finding(v.filename, t[node].lineno,
                Issue("os.system() is unsafe - use subprocess with proper argument handling",
                      <<>>),
                SECURITY, get_line_content(v, t[node].lineno),
                get_context(v, t[node].lineno)) >>
      ELSE IF t[func].name \in { nm_Popen, nm_call, nm_run }
      THEN [ k \in 1..Len(shell) |->
               create_finding(v.filename, t[node].lineno,
                 Issue("subprocess with shell=True is vulnerable to injection attacks",
                       <<>>),
                 SECURITY, get_line_content(v, t[node].lineno),
                 get_context(v, t[node].lineno)) ]
      ELSE <<>>

\* SecurityVisitor.visit_Call, up to its call of generic_visit
Security_visit_Call(v, t, node) ==
  [ v EXCEPT !.findings = @ \o _check_dangerous_eval_exec(v, t, node)
                            \o _check_pickle_loads(v, t, node)
                            \o _check_unsafe_system_calls(v, t, node) ]

\* ------------------------------------ performance_rules.PerformanceVisitor
PerformanceVisitor__init__(filename, lines) ==
  ASTVisitor__init__(filename, lines)
    @@ [ loop_depth |-> 0, in_async_function |-> FALSE ]

deep_threshold == 3

\* the depth test with > in place of >=
DeepFinding_above(v, t, node, depth, template) ==
  IF depth > deep_threshold
  THEN << create_finding(v.filename, t[node].lineno,
            Issue(template, << depth >>), PERFORMANCE,
            get_line_content(v, t[node].lineno),
            get_context(v, t[node].lineno)) >>
  ELSE <<>>

DeepFinding(v, t, node, depth, template) ==
  IF depth >= deep_threshold
  THEN << create_finding(v.filename, t[node].lineno,
            Issue(template, << depth >>), PERFORMANCE,
            get_line_content(v, t[node].lineno),
            get_context(v, t[node].lineno)) >>
  ELSE <<>>

\* the calls X.append(...) that ast.walk(node) yields, in its order
AppendCalls(t, node) ==
  SelectSeq(walk(t, node),
    LAMBDA child :
      /\ t[child].kind = "Call"
      /\ t[FieldNodes(t, child, "func")[1]].kind = "Attribute"
      /\ t[FieldNodes(t, child, "func")[1]].name = nm_append)

\* the loop over ast.walk(node) without the test of the depth
AppendFindings_every(v, t, node, depth) ==
  LET hits == AppendCalls(t, node)
  IN  [ k \in 1..Len(hits) |->
          create_finding(v.filename, t[hits[k]].lineno,
            Issue("List append in loop - consider using list comprehension for better performance",
                  <<>>),
            PERFORMANCE, get_line_content(v, t[hits[k]].lineno),
            get_context(v, t[hits[k]].lineno)) ]

\* the loop over ast.walk(node) of visit_For
AppendFindings(v, t, node, depth) ==
  LET hits == IF depth = 1 THEN AppendCalls(t, node) ELSE <<>>
  IN  [ k \in 1..Len(hits) |->
          create_finding(v.filename, t[hits[k]].lineno,
            Issue("List append in loop - consider using list comprehension for better performance",
                  <<>>),
            PERFORMANCE, get_line_content(v, t[hits[k]].lineno),
            get_context(v, t[hits[k]].lineno)) ]

\* visit_For, up to its call of generic_visit
visit_For(v, t, node) ==
  LET depth == v.loop_depth + 1
  IN  [ v EXCEPT !.loop_depth = depth,
                 !.findings = @ \o DeepFinding(v, t, node, depth,
                       "Deeply nested loop (depth {}) may cause performance issues")
                                \o AppendFindings(v, t, node, depth) ]

\* visit_While, up to its call of generic_visit
visit_While(v, t, node) ==
  LET depth == v.loop_depth + 1
  IN  [ v EXCEPT !.loop_depth = depth,
                 !.findings = @ \o DeepFinding(v, t, node, depth,
                       "Deeply nested while loop (depth {}) may cause performance issues") ]

\* a loop callback that forgets the decrement after generic_visit
LeaveLoop_kept(v) == v

\* visit_For / visit_While after generic_visit
LeaveLoop(v) == [ v EXCEPT !.loop_depth = @ - 1 ]

\* visit_AsyncFunctionDef, up to its call of generic_visit (old_async is
\* kept in the stack frame)
visit_AsyncFunctionDef(v, t, node) == [ v EXCEPT !.in_async_function = TRUE ]

\* visit_AsyncFunctionDef after generic_visit
LeaveAsyncFunctionDef(v, old_async) == [ v EXCEPT !.in_async_function = old_async ]

\* a block-list that lacks read
blocking_funcs_short == { nm_sleep, << "w","r","i","t","e" >>,
                          << "c","o","n","n","e","c","t" >> }

blocking_funcs == { nm_sleep, nm_read, << "w","r","i","t","e" >>,
                    << "c","o","n","n","e","c","t" >> }

\* PerformanceVisitor.visit_Call, up to its call of generic_visit
Performance_visit_Call(v, t, node) ==
  LET func == FieldNodes(t, node, "func")[1]
      value == FieldNodes(t, func, "value")
      new ==
        IF ~v.in_async_function THEN <<>>
        ELSE IF t[func].kind = "Attribute"
        THEN IF /\ t[func].name \in blocking_funcs
                /\ ~(t[value[1]].kind = "Name" /\ t[value[1]].name = nm_asyncio)
             THEN << create_finding(v.filename, t[node].lineno,
                       Issue("Blocking call '{}()' in async function - use async version",
                             << t[func].name >>),
                       PERFORMANCE, get_line_content(v, t[node].lineno),
                       get_context(v, t[node].lineno)) >>
             ELSE <<>>
        ELSE IF t[func].kind = "Name" /\ t[func].name = nm_sleep
        THEN << create_finding(v.filename, t[node].lineno,
                  Issue("Use 'await asyncio.sleep()' instead of 'time.sleep()' in async functions",
                        <<>>),
                  PERFORMANCE, get_line_content(v, t[node].lineno),
                  get_context(v, t[node].lineno)) >>
        ELSE <<>>
  IN  [ v EXCEPT !.findings = @ \o new ]

\* visit_ListComp, up to its call of generic_visit
visit_ListComp(v, t, node) ==
  LET nested == SelectSeq(FieldNodes(t, node, "generators"),
                  LAMBDA g : t[FieldNodes(t, g, "iter")[1]].kind = "ListComp")
  IN  [ v EXCEPT !.findings = @ \o
          [ k \in 1..Len(nested) |->
              create_finding(v.filename, t[node].lineno,
                Issue("Nested list comprehension detected - consider breaking into separate steps for readability",
                      <<>>),
                PERFORMANCE, get_line_content(v, t[node].lineno),
                get_context(v, t[node].lineno)) ] ]

\* --------------------------------- code_quality_rules.CodeQualityVisitor
def_snippet(name) == << "d","e","f"," " >> \o name \o << "(",".",".",".",")" >>
class_snippet(name) == << "c","l","a","s","s"," " >> \o name \o << ":" >>

max_function_length == 50
max_parameters == 5
max_complexity == 10
max_methods == 20

_check_function_length(v, t, node) ==
  LET func_length == t[node].end_lineno - t[node].lineno
  IN  IF func_length > max_function_length
      THEN << create_finding(v.filename, t[node].lineno,
                Issue("Function '{}' is too long ({} lines) - consider breaking it down",
                      << t[node].name, func_length >>),
                CODE_QUALITY, def_snippet(t[node].name),
                get_context(v, t[node].lineno)) >>
      ELSE <<>>

\* a docstring check that keeps quiet once the visitor has a finding
_check_missing_docstring_once(v, t, node) ==
  IF v.findings = <<>> /\ get_docstring(t, node) = <<>>
     /\ ~startswith(t[node].name, "_")
  THEN << create_finding(v.filename, t[node].lineno,
            Issue("Function '{}' is missing a docstring", << t[node].name >>),
            CODE_QUALITY, def_snippet(t[node].name),
            get_context(v, t[node].lineno)) >>
  ELSE <<>>

_check_missing_docstring(v, t, node) ==
  IF get_docstring(t, node) = <<>> /\ ~startswith(t[node].name, "_")
  THEN << create_finding(v.filename, t[node].lineno,
            Issue("Function '{}' is missing a docstring", << t[node].name >>),
            CODE_QUALITY, def_snippet(t[node].name),
            get_context(v, t[node].lineno)) >>
  ELSE <<>>

_check_parameter_count(v, t, node) ==
  LET args == FieldNodes(t, FieldNodes(t, node, "args")[1], "args")
  IN  IF Len(args) > max_parameters
      THEN << create_finding(v.filename, t[node].lineno,
                Issue("Function '{}' has too many parameters ({}) - consider using a config object",
                      << t[node].name, Len(args) >>),
                CODE_QUALITY, def_snippet(t[node].name),
                get_context(v, t[node].lineno)) >>
      ELSE <<>>

\* the loop of _calculate_complexity over the nodes still to walk
RECURSIVE ComplexityLoop(_, _, _)
ComplexityLoop(t, todo, complexity) ==
  IF todo = <<>> THEN complexity
  ELSE LET child == Head(todo)
       IN  ComplexityLoop(t, Tail(todo),
             IF t[child].kind \in { "If", "For", "While", "ExceptHandler" }
             THEN complexity + 1
             ELSE IF t[child].kind = "BoolOp"
             THEN complexity + Len(FieldNodes(t, child, "values")) - 1
             ELSE complexity)

_calculate_complexity(t, node) == ComplexityLoop(t, walk(t, node), 1)

_check_complexity(v, t, node) ==
  LET complexity == _calculate_complexity(t, node)
  IN  IF complexity > max_complexity
      THEN << create_finding(v.filename, t[node].lineno,
                Issue("Function '{}' has high cyclomatic complexity ({}) - consider simplifying",
                      << t[node].name, complexity >>),
                CODE_QUALITY, def_snippet(t[node].name),
                get_context(v, t[node].lineno)) >>
      ELSE <<>>

\* visit_FunctionDef, up to its call of generic_visit
visit_FunctionDef(v, t, node) ==
  [ v EXCEPT !.findings = @ \o _check_function_length(v, t, node)
                            \o _check_missing_docstring(v, t, node)
                            \o _check_parameter_count(v, t, node)
                            \o _check_complexity(v, t, node) ]

\* visit_ClassDef, up to its call of generic_visit
visit_ClassDef(v, t, node) ==
  LET methods == SelectSeq(FieldNodes(t, node, "body"),
                   LAMBDA b : t[b].kind = "FunctionDef")
  IN  [ v EXCEPT !.findings = @
          \o (IF get_docstring(t, node) = <<>> /\ ~startswith(t[node].name, "_")
              THEN << create_finding(v.filename, t[node].lineno,
                        Issue("Class '{}' is missing a docstring", << t[node].name >>),
                        CODE_QUALITY, class_snippet(t[node].name),
                        get_context(v, t[node].lineno)) >>
              ELSE <<>>)
          \o (IF Len(methods) > max_methods
              THEN << create_finding(v.filename, t[node].lineno,
                        Issue("Class '{}' has too many methods ({}) - consider splitting into multiple classes",
                              << t[node].name, Len(methods) >>),
                        CODE_QUALITY, class_snippet(t[node].name),
                        get_context(v, t[node].lineno)) >>
              ELSE <<>>) ]

allowed_single_letters == { << "i" >>, << "j" >>, << "k" >>, << "x" >>, << "y" >>,
                            << "z" >>, << "_" >> }

\* visit_Name, up to its call of generic_visit
visit_Name(v, t, node) ==
  IF Len(t[node].name) = 1 /\ t[node].name \notin allowed_single_letters
  THEN [ v EXCEPT !.findings = @ \o
           << create_finding(v.filename, t[node].lineno,
                Issue("Single-letter variable name '{}' - use descriptive names",
                      << t[node].name >>),
                CODE_QUALITY, get_line_content(v, t[node].lineno),
                get_context(v, t[node].lineno)) >> ]
  ELSE v

\* parse_ast_safely without its except clause: SyntaxError propagates too
Unguarded(r) ==
  IF r.status = "ok" THEN [ raised |-> "", tree |-> r.tree ]
  ELSE [ raised |-> r.status, tree |-> None ]

\* try: return ast.parse(code) / except SyntaxError: return None, for the
\* outcome r of ast.parse
Guarded(r) ==
  IF r.status = "ok" THEN [ raised |-> "", tree |-> r.tree ]
  ELSE IF r.status = "SyntaxError" THEN [ raised |-> "", tree |-> None ]
  ELSE [ raised |-> r.status, tree |-> None ]

\* BaseAnalyzer.parse_ast_safely(code): the tree, None on SyntaxError; any
\* other exception of ast.parse propagates
parse_ast_safely(file) == Guarded(Parse(file))

Analyzers == << "security", "performance", "quality" >>

files == calls[run]

NoVisitor == [ filename |-> "", lines |-> <<>>, findings |-> <<>> ]

\* the visitor each analyze() constructs
NewVisitor(a, filename, lines) ==
  IF a = "performance" THEN PerformanceVisitor__init__(filename, lines)
  ELSE ASTVisitor__init__(filename, lines)

\* NodeVisitor.visit(node): the visit_<kind> method of the visitor's class,
\* up to its generic_visit call; generic_visit alone when there is none
VisitCallback(a, v, t, node) ==
  LET kind == t[node].kind
  IN  CASE a = "security" /\ kind = "Call" -> Security_visit_Call(v, t, node)
        [] a = "performance" /\ kind = "For" -> visit_For(v, t, node)
        [] a = "performance" /\ kind = "While" -> visit_While(v, t, node)
        [] a = "performance" /\ kind = "AsyncFunctionDef" ->
             visit_AsyncFunctionDef(v, t, node)
        [] a = "performance" /\ kind = "Call" -> Performance_visit_Call(v, t, node)
        [] a = "performance" /\ kind = "ListComp" -> visit_ListComp(v, t, node)
        [] a = "quality" /\ kind = "FunctionDef" -> visit_FunctionDef(v, t, node)
        [] a = "quality" /\ kind = "ClassDef" -> visit_ClassDef(v, t, node)
        [] a = "quality" /\ kind = "Name" -> visit_Name(v, t, node)
        [] OTHER -> v

\* the rest of the visit_<kind> method, after generic_visit returned
LeaveCallback(a, v, t, frame) ==
  LET kind == t[frame.node].kind
  IN  CASE a = "performance" /\ kind \in { "For", "While" } -> LeaveLoop(v)
        [] a = "performance" /\ kind = "AsyncFunctionDef" ->
             LeaveAsyncFunctionDef(v, frame.old_async)
        [] OTHER -> v

\* generic_visit going through the children from the last to the first
generic_visit_reversed(t, node) ==
  [ k \in 1..Len(Children(t, node)) |->
      Children(t, node)[Len(Children(t, node)) + 1 - k] ]

\* generic_visit: the children of a node, in the order they are visited
generic_visit(t, node) == Children(t, node)

\* the nodes that the findings appended by the callback of node report
ReportedNodes(a, v, t, node, added) ==
  IF a = "performance" /\ t[node].kind = "For"
  THEN LET deep == Len(DeepFinding(v, t, node, v.loop_depth + 1, ""))
           hits == AppendCalls(t, node)
       IN  [ k \in 1..added |-> IF k <= deep THEN node ELSE hits[k - deep] ]
  ELSE [ k \in 1..added |-> node ]

\* where analyze_code goes after analyzer a returned for file number fi
AfterAnalyzer(a) ==
  IF a = "security" THEN "performance"
  ELSE IF a = "performance" THEN "quality"
  ELSE IF fi < Len(files) THEN "security"
  ELSE "return"

\* ---------------------------------------------------------------- actions
\* the caller calls analyze_code(files)
Call ==
  /\ pc = "idle"
  /\ run < Len(calls)
  /\ run' = run + 1
  /\ all_findings' = <<>>
  /\ log' = <<>>
  /\ fi' = 1
  /\ pc' = IF calls[run + 1] = <<>> THEN "return" ELSE "security"
  /\ UNCHANGED << calls, results, analyzer, findings, tree, visitor, stack, tasks, review >>

\* the findings of the text detectors, which only SecurityAnalyzer has
TextChecks(a, filename, code, lines) ==
  IF a = "security"
  THEN _check_hardcoded_secrets(filename, code, lines)
       \o _check_sql_injection(filename, code, lines)
  ELSE <<>>

\* analyze() once the text detectors gave text and the parse step parsed
AnalyzeParsed(a, file, text, parsed) ==
  /\ analyzer' = a
  /\ IF parsed.raised # ""
     THEN /\ results' = Append(results, [ status |-> "raised",
                                          exc |-> parsed.raised ])
          /\ pc' = "idle"
          /\ UNCHANGED << all_findings, findings, tree, visitor, stack, fi, log >>
     ELSE /\ log' = log \o [ k \in 1..Len(text) |->
                             [ file |-> fi, analyzer |-> a, by |-> 0, at |-> 0 ] ]
          /\ IF parsed.tree = None
             THEN /\ all_findings' = all_findings \o text
                  /\ pc' = AfterAnalyzer(a)
                  /\ fi' = IF a = "quality" /\ fi < Len(files) THEN fi + 1 ELSE fi
                  /\ UNCHANGED << findings, tree, visitor, stack, results >>
             ELSE /\ findings' = text
                  /\ tree' = parsed.tree
                  /\ visitor' = NewVisitor(a, file.name, split(Code(file), "\n"))
                  /\ stack' = <<>>
                  /\ pc' = "visit"
                  /\ UNCHANGED << all_findings, fi, results >>

\* <X>Analyzer.analyze(filename, code) up to visitor.visit(tree); when there
\* is no tree it returns at once, when the parser raises the call is over
Analyze(a) ==
  /\ pc = a
  /\ AnalyzeParsed(a, files[fi],
       TextChecks(a, files[fi].name, Code(files[fi]), split(Code(files[fi]), "\n")),
       parse_ast_safely(files[fi]))
  /\ UNCHANGED << calls, run, tasks, review >>

SecurityAnalyze == Analyze("security")
PerformanceAnalyze == Analyze("performance")
CodeQualityAnalyze == Analyze("quality")

\* visit(node): the callback of node turns the visitor into v
VisitNode(node, v) ==
  /\ visitor' = v
  /\ stack' = (IF stack = <<>> THEN <<>>
               ELSE [ stack EXCEPT ![Len(stack)].next = @ + 1 ])
              \o << [ node |-> node, next |-> 1,
                      old_async |-> IF analyzer = "performance"
                                       /\ tree[node].kind = "AsyncFunctionDef"
                                    THEN visitor.in_async_function ELSE FALSE ] >>
  /\ log' = log \o [ k \in 1..(Len(v.findings) - Len(visitor.findings)) |->
                     [ file |-> fi, analyzer |-> analyzer, by |-> node,
                       at |-> ReportedNodes(analyzer, visitor, tree, node,
                                Len(v.findings) - Len(visitor.findings))[k] ] ]

VisitNext(node) == VisitNode(node, VisitCallback(analyzer, visitor, tree, node))

\* visit(node) is entered: for the root, or for the next child in the
\* generic_visit loop of the node on top of the stack
Visit ==
  /\ pc = "visit"
  /\ IF stack = <<>> THEN TRUE
     ELSE stack[Len(stack)].next <= Len(generic_visit(tree, stack[Len(stack)].node))
  /\ VisitNext(IF stack = <<>> THEN 1
               ELSE generic_visit(tree, stack[Len(stack)].node)[stack[Len(stack)].next])
  /\ UNCHANGED << calls, run, results, pc, fi, all_findings, analyzer, findings,
                  tree, tasks, review >>

\* the generic_visit loop of the node on top of the stack is over: the rest
\* of its callback runs and visit(node) returns
Leave ==
  /\ pc = "visit"
  /\ stack # <<>>
  /\ stack[Len(stack)].next > Len(generic_visit(tree, stack[Len(stack)].node))
  /\ visitor' = LeaveCallback(analyzer, visitor, tree, stack[Len(stack)])
  /\ stack' = SubSeq(stack, 1, Len(stack) - 1)
  /\ pc' = IF Len(stack) = 1 THEN "visited" ELSE "visit"
  /\ UNCHANGED << calls, run, results, fi, all_findings, analyzer, findings, tree,
                  log, tasks, review >>

\* visitor.visit(tree) returned: findings.extend(visitor.findings), analyze()
\* returns and analyze_code extends all_findings
AnalyzerReturn ==
  /\ pc = "visited"
  /\ findings' = findings \o visitor.findings
  /\ all_findings' = all_findings \o findings'
  /\ pc' = AfterAnalyzer(analyzer)
  /\ fi' = IF analyzer = "quality" /\ fi < Len(files) THEN fi + 1 ELSE fi
  /\ UNCHANGED << calls, run, results, analyzer, tree, visitor, stack, log, tasks, review >>

\* analyze_code returns all_findings
Return ==
  /\ pc = "return"
  /\ results' = Append(results, [ status |-> "returned", findings |-> all_findings ])
  /\ pc' = "idle"
  /\ UNCHANGED << calls, run, fi, all_findings, analyzer, findings, tree, visitor,
                  stack, log, tasks, review >>

Next ==
  \/ Call
  \/ SecurityAnalyze
  \/ PerformanceAnalyze
  \/ CodeQualityAnalyze
  \/ Visit
  \/ Leave
  \/ AnalyzerReturn
  \/ Return

InitState ==
  /\ run = 0
  /\ results = <<>>
  /\ pc = "idle"
  /\ fi = 0
  /\ all_findings = <<>>
  /\ analyzer = ""
  /\ findings = <<>>
  /\ tree = None
  /\ visitor = NoVisitor
  /\ stack = <<>>
  /\ log = <<>>
  /\ tasks = <<>>
  /\ review = [ pc |-> "idle", i |-> 0, batch |-> <<>>, enhanced |-> <<>>,
                report |-> [ repo_url |-> "", total_issues |-> 0, findings |-> <<>>,
                             stats |-> [ by_category |-> [ security |-> 0,
                                                           performance |-> 0,
                                                           code_quality |-> 0 ],
                                         by_severity |-> [ critical |-> 0, high |-> 0,
                                                           medium |-> 0, low |-> 0,
                                                           info |-> 0 ],
                                         by_file |-> <<>>,
                                         total_files_analyzed |-> 0 ] ] ]

\* ------------------------------------------------------------------ inputs
MaxFiles == 2

Literal(n, c) == [ k \in 1..n |-> c ]
nm_API_KEY == << "A","P","I","_","K","E","Y" >>

\* process_data of test_sample.py: three nested for loops around an append
nest_py ==
  File("nest.py",
       << Stmt(0, ForStmt), Stmt(1, ForStmt), Stmt(2, ForStmt),
          Stmt(3, AttrCallStmt(nm_xs, nm_append, FALSE)) >>, LF)

\* fetch_data of test_sample.py, with a nested def
async_py ==
  File("async.py",
       << Stmt(0, AsyncDefStmt(nm_f)), Stmt(1, DefStmt(nm_f)),
          Stmt(2, AttrCallStmt(nm_time, nm_sleep, FALSE)),
          Stmt(1, AttrCallStmt(nm_asyncio, nm_sleep, TRUE)),
          Stmt(1, AttrCallStmt(nm_time, nm_sleep, FALSE)) >>, LF)

\* a hardcoded key followed by an unexpectedly indented line
broken_py ==
  File("broken.py",
       << Stmt(0, AssignStrStmt(nm_API_KEY, "\"", Literal(20, "a"))),
          Stmt(1, PassStmt) >>, LF)

deep_py == File("deep.py", << Stmt(0, DeepStmt) >>, LF)

\* lines that end in a lone carriage return
cr_py == File("cr.py", << Stmt(0, PassStmt), Stmt(0, NameCallStmt(nm_eval)) >>, CR)

order_py ==
  File("order.py",
       << Stmt(0, ForStmt), Stmt(1, IfStmt),
          Stmt(2, AttrCallStmt(nm_xs, nm_append, FALSE)),
          Stmt(1, AttrCallStmt(nm_xs, nm_append, FALSE)),
          Stmt(1, NameCallStmt(nm_eval)) >>, LF)

Pool == { nest_py, async_py, broken_py, deep_py, cr_py, order_py }

\* the mappings of at most n files: a dict has no two equal keys
RECURSIVE Batches(_)
Batches(n) ==
  IF n = 0 THEN { <<>> }
  ELSE Batches(n - 1) \cup
       { Append(b, f) : b \in { c \in Batches(n - 1) : Len(c) = n - 1 },
                        f \in Pool }

Distinct(b) == \A i, j \in 1..Len(b) : i # j => b[i].name # b[j].name

Without(b, k) == SubSeq(b, 1, k - 1) \o SubSeq(b, k + 1, Len(b))

\* the caller analyses a mapping, then the same mapping again or the mapping
\* without one of its files
Init ==
  /\ InitState
  /\ \E b \in { c \in Batches(MaxFiles) : c # <<>> /\ Distinct(c) } :
       calls \in { << b, b >> } \cup { << b, Without(b, k) >> : k \in 1..Len(b) }

Spec == Init /\ [][Next]_vars

\* ------------------------------------------------------- input families
\* every line is indented as the line before it allows
Indented(stmts) ==
  /\ stmts # <<>> => stmts[1].indent = 0
  /\ \A k \in 2..Len(stmts) :
       IF stmts[k - 1].form.block
       THEN stmts[k].indent = stmts[k - 1].indent + 1
       ELSE stmts[k].indent <= stmts[k - 1].indent

\* the indented statement sequences of at most n lines over forms
RECURSIVE Programs(_, _)
Programs(forms, n) ==
  IF n = 0 THEN { <<>> }
  ELSE LET shorter == Programs(forms, n - 1)
       IN  shorter \cup
           { r \in { Append(q, Stmt(d, f)) :
                       q \in { r \in shorter : Len(r) = n - 1 },
                       d \in 0..(n - 1), f \in forms } : Indented(r) }

\* one call of analyze_code on a single file
OneFile(file) == << << file >> >>

\* loops: nests of for, while and if
MaxLoopLines == 5
LoopForms == { ForStmt, WhileStmt, IfStmt, PassStmt }
LoopPrograms ==
  { q \in Programs(LoopForms, MaxLoopLines) : q # <<>> /\ WellFormed(q) }

InitLoops ==
  /\ InitState
  /\ calls \in { OneFile(File("loops.py", q, LF)) : q \in LoopPrograms }

SpecLoops == InitLoops /\ [][Next]_vars

\* async: calls in and around async and plain function definitions
MaxAsyncLines == 3
AsyncForms ==
  { AsyncDefStmt(nm_f), DefStmt(nm__f),
    AttrCallStmt(nm_time, nm_sleep, FALSE),
    AttrCallStmt(nm_asyncio, nm_sleep, TRUE),
    AttrCallStmt(nm_xs, nm_read, FALSE),
    AttrCallStmt(nm_xs, nm_append, FALSE),
    NameCallStmt(nm_sleep) }
AsyncPrograms ==
  { q \in Programs(AsyncForms, MaxAsyncLines) : q # <<>> /\ WellFormed(q) }

InitAsync ==
  /\ InitState
  /\ calls \in { OneFile(File("async.py", q, LF)) : q \in AsyncPrograms }

SpecAsync == InitAsync /\ [][Next]_vars

\* complexity: one function whose body is n branches of one form, in
\* sequence or nested in one another, followed by one more statement
MaxBranches == 11
BranchForms ==
  { << IfStmt >>, << ForStmt >>, << WhileStmt >>, << IfAndStmt(2) >>,
    << IfAndStmt(3) >>, << TryStmt, ExceptStmt >> }

\* a branch statement at indentation d, with pass as each of its bodies
Branch(b, d) ==
  IF Len(b) = 1 THEN << Stmt(d, b[1]), Stmt(d + 1, PassStmt) >>
  ELSE << Stmt(d, b[1]), Stmt(d + 1, PassStmt),
          Stmt(d, b[2]), Stmt(d + 1, PassStmt) >>

RECURSIVE Sequence(_, _, _)
Sequence(b, n, d) == IF n = 0 THEN <<>> ELSE Branch(b, d) \o Sequence(b, n - 1, d)

RECURSIVE Nest(_, _, _)
Nest(b, n, d) ==
  IF n = 0 THEN << Stmt(d, PassStmt) >>
  ELSE << Stmt(d, b[1]) >> \o Nest(b, n - 1, d + 1)

Tails ==
  { <<>> } \cup { Branch(b, 1) : b \in BranchForms }
    \cup { << Stmt(1, DefStmt(nm__f)) >> \o Branch(<< IfStmt >>, 2),
           << Stmt(1, AsyncDefStmt(nm__f)) >> \o Branch(<< IfStmt >>, 2) }

ComplexityPrograms ==
  { << Stmt(0, def) >> \o body \o tl :
      def \in { DefStmt(nm__f), AsyncDefStmt(nm__f) },
      body \in { Sequence(b, n, 1) : b \in BranchForms, n \in 1..MaxBranches }
                 \cup { Nest(<< IfStmt >>, n, 1) : n \in 1..MaxBranches },
      tl \in Tails }

InitComplexity ==
  /\ InitState
  /\ calls \in { OneFile(File("branches.py", q, LF)) : q \in ComplexityPrograms }

SpecComplexity == InitComplexity /\ [][Next]_vars

\* secrets: the one-line files NAME = "literal"
MaxLiteral == 22
ApiKeyNames ==
  { nm_API_KEY, << "a","p","i","_","k","e","y" >>, << "a","p","i","k","e","y" >>,
    << "a","p","i","-","k","e","y" >>, << "A","p","i","K","e","y" >> }
sk_live ==
  << "s","k","_","l","i","v","e","_","1","2","3","4","5","6","7","8","9","0",
     "a","b","c","d","e","f","g","h","i","j","k" >>
Literals ==
  { Literal(n, c) : n \in 0..MaxLiteral, c \in { "a", "Z", "9", "_", "-" } }
    \cup { sk_live, << "s","h","o","r","t" >> }
SecretPrograms ==
  { << Stmt(0, AssignStrStmt(nm, q, lit)) >> :
      nm \in ApiKeyNames, q \in Quotes, lit \in Literals }

InitSecrets ==
  /\ InitState
  /\ calls \in { OneFile(File("settings.py", q, LF)) : q \in SecretPrograms }

SpecSecrets == InitSecrets /\ [][Next]_vars

\* context: one call of eval on line p of a file of n lines, the other lines
\* pass; the lines end in a line feed or in a lone carriage return
MaxFileLines == 8
ContextPrograms ==
  { [ k \in 1..n |-> Stmt(0, IF k = p THEN NameCallStmt(nm_eval) ELSE PassStmt) ] :
      n \in 1..MaxFileLines, p \in 1..MaxFileLines }

InitContext ==
  /\ InitState
  /\ calls \in { OneFile(File("lines.py", q, eol)) :
                   q \in ContextPrograms, eol \in { LF, CR } }

SpecContext == InitContext /\ [][Next]_vars

\* ------------------------------------------- per-file analyses run as tasks
\* the findings that check number i of the visit_<kind> callback of a node
\* appends when it runs on the visitor v, the checks numbered in the order of
\* their calls in the callback
Check(a, v, t, node, i) ==
  CASE a = "security" /\ t[node].kind = "Call" ->
         IF i = 1 THEN _check_dangerous_eval_exec(v, t, node)
         ELSE IF i = 2 THEN _check_pickle_loads(v, t, node)
         ELSE IF i = 3 THEN _check_unsafe_system_calls(v, t, node)
         ELSE <<>>
    [] a = "quality" /\ t[node].kind = "FunctionDef" ->
         IF i = 1 THEN _check_function_length(v, t, node)
         ELSE IF i = 2 THEN _check_missing_docstring(v, t, node)
         ELSE IF i = 3 THEN _check_parameter_count(v, t, node)
         ELSE _check_complexity(v, t, node)
    [] a = "performance" /\ t[node].kind = "For" ->
         IF i = 1
         THEN DeepFinding(v, t, node, v.loop_depth + 1,
                "Deeply nested loop (depth {}) may cause performance issues")
         ELSE IF i = 2 THEN AppendFindings(v, t, node, v.loop_depth + 1)
         ELSE <<>>
    [] OTHER ->
         IF i = 1
         THEN SubSeq(VisitCallback(a, v, t, node).findings, Len(v.findings) + 1,
                     Len(VisitCallback(a, v, t, node).findings))
         ELSE <<>>

\* the most checks one callback makes
MaxChecks == 4

\* the orders in which n things can be done
Orders(n) ==
  { p \in [ 1..n -> 1..n ] : \A i, j \in 1..n : i # j => p[i] # p[j] }

\* the checks of a callback run one after the other in the order perm, each
\* on the visitor the checks before it left
RECURSIVE RunChecks(_, _, _, _, _)
RunChecks(a, v, t, node, perm) ==
  IF perm = <<>> THEN v
  ELSE RunChecks(a, [ v EXCEPT !.findings = @ \o Check(a, v, t, node, Head(perm)) ],
                 t, node, Tail(perm))

\* the callback of node with its checks made in the order perm
PermutedCallback(a, v, t, node, perm) ==
  [ VisitCallback(a, v, t, node) EXCEPT
      !.findings = RunChecks(a, v, t, node, perm).findings ]

\* the local variables of the analysis of file number file, whose rule sets
\* run in the order order
NewTask(file, order, perm) ==
  [ file |-> file, order |-> order, perm |-> perm, pc |-> order[1],
    analyzer |-> "", findings |-> <<>>, tree |-> None, visitor |-> NoVisitor,
    stack |-> <<>>, out |-> <<>>, met |-> FALSE ]

\* a task that works on a visitor of the first task
TaskLocals_shared(ts, t) ==
  [ ts[t] EXCEPT !.visitor.findings = ts[1].visitor.findings ]

\* the variables task t works on: the locals of its own analyze() calls and
\* the visitor these construct
TaskLocals(ts, t) == ts[t]

\* task t takes the step that leaves it with the locals l; met records that
\* it ran while another task was between its first step and its last
TaskStepped(ts, t, l) ==
  [ ts EXCEPT ![t] =
      [ l EXCEPT !.met = @ \/ \E u \in 1..Len(ts) :
                                /\ u # t
                                /\ ts[u].analyzer # ""
                                /\ ts[u].pc \notin { "done", "raised" } ] ]

\* where a task goes after analyzer a returned
TaskAfter(order, a) ==
  IF a = order[1] THEN order[2]
  ELSE IF a = order[2] THEN order[3]
  ELSE "done"

\* analyze() in a task, once the text detectors gave text and the parse step
\* parsed
TaskAnalyzeParsed(l, a, file, text, parsed) ==
  IF parsed.raised # "" THEN [ l EXCEPT !.analyzer = a, !.pc = "raised" ]
  ELSE IF parsed.tree = None
  THEN [ l EXCEPT !.analyzer = a, !.out = @ \o text, !.pc = TaskAfter(l.order, a) ]
  ELSE [ l EXCEPT !.analyzer = a, !.findings = text, !.tree = parsed.tree,
                  !.visitor = NewVisitor(a, file.name, split(Code(file), "\n")),
                  !.stack = <<>>, !.pc = "visit" ]

TaskAnalyzed(l, file) ==
  TaskAnalyzeParsed(l, l.pc, file,
    TextChecks(l.pc, file.name, Code(file), split(Code(file), "\n")),
    parse_ast_safely(file))

\* visit(node) in a task
TaskVisitNode(l, node) ==
  [ l EXCEPT
      !.visitor = PermutedCallback(l.analyzer, l.visitor, l.tree, node, l.perm),
      !.stack = (IF l.stack = <<>> THEN <<>>
                 ELSE [ l.stack EXCEPT ![Len(l.stack)].next = @ + 1 ])
                \o << [ node |-> node, next |-> 1,
                        old_async |-> IF l.analyzer = "performance"
                                         /\ l.tree[node].kind = "AsyncFunctionDef"
                                      THEN l.visitor.in_async_function
                                      ELSE FALSE ] >> ]

TaskVisited(l) ==
  TaskVisitNode(l, IF l.stack = <<>> THEN 1
                   ELSE generic_visit(l.tree, l.stack[Len(l.stack)].node)
                          [l.stack[Len(l.stack)].next])

TaskLeft(l) ==
  [ l EXCEPT !.visitor = LeaveCallback(l.analyzer, l.visitor, l.tree,
                                       l.stack[Len(l.stack)]),
             !.stack = SubSeq(l.stack, 1, Len(l.stack) - 1),
             !.pc = IF Len(l.stack) = 1 THEN "visited" ELSE "visit" ]

TaskReturned(l) ==
  [ l EXCEPT !.findings = @ \o l.visitor.findings,
             !.out = @ \o l.findings \o l.visitor.findings,
             !.pc = TaskAfter(l.order, l.analyzer) ]

IdentityOrder == [ k \in 1..MaxChecks |-> k ]

\* the orders in which the three rule sets can run
AnalyzerOrders == { [ k \in 1..Len(Analyzers) |-> Analyzers[p[k]] ] :
                    p \in Orders(Len(Analyzers)) }

\* the sequential call is over and its files are handed to one task each
Spawn ==
  /\ pc = "idle"
  /\ run = Len(calls)
  /\ run > 0
  /\ tasks = <<>>
  /\ files # <<>>
  /\ tasks' = [ t \in 1..Len(files) |-> NewTask(t, Analyzers, IdentityOrder) ]
  /\ UNCHANGED << run_vars, review >>

\* a task enters analyze() of its next rule set
TaskAnalyze ==
  \E t \in 1..Len(tasks) :
    /\ tasks[t].pc \in Seq2Set(Analyzers)
    /\ tasks' = TaskStepped(tasks, t,
                  TaskAnalyzed(TaskLocals(tasks, t), files[tasks[t].file]))
    /\ UNCHANGED << run_vars, review >>

\* a task enters visit(node)
TaskVisit ==
  \E t \in 1..Len(tasks) :
    /\ tasks[t].pc = "visit"
    /\ IF tasks[t].stack = <<>> THEN TRUE
       ELSE tasks[t].stack[Len(tasks[t].stack)].next
              <= Len(generic_visit(tasks[t].tree,
                                   tasks[t].stack[Len(tasks[t].stack)].node))
    /\ tasks' = TaskStepped(tasks, t, TaskVisited(TaskLocals(tasks, t)))
    /\ UNCHANGED << run_vars, review >>

\* a task leaves visit(node)
TaskLeave ==
  \E t \in 1..Len(tasks) :
    /\ tasks[t].pc = "visit"
    /\ tasks[t].stack # <<>>
    /\ tasks[t].stack[Len(tasks[t].stack)].next
         > Len(generic_visit(tasks[t].tree,
                             tasks[t].stack[Len(tasks[t].stack)].node))
    /\ tasks' = TaskStepped(tasks, t, TaskLeft(TaskLocals(tasks, t)))
    /\ UNCHANGED << run_vars, review >>

\* analyze() returns in a task and the task keeps its findings
TaskReturn ==
  \E t \in 1..Len(tasks) :
    /\ tasks[t].pc = "visited"
    /\ tasks' = TaskStepped(tasks, t, TaskReturned(TaskLocals(tasks, t)))
    /\ UNCHANGED << run_vars, review >>

\* the sequential call is over and its first file is analysed again, with the
\* rule sets and the checks of each callback in another order
SpawnPermuted ==
  /\ pc = "idle"
  /\ run = Len(calls)
  /\ run > 0
  /\ tasks = <<>>
  /\ files # <<>>
  /\ \E order \in AnalyzerOrders, perm \in Orders(MaxChecks) :
       tasks' = << NewTask(1, order, perm) >>
  /\ UNCHANGED << run_vars, review >>

TaskStep == TaskAnalyze \/ TaskVisit \/ TaskLeave \/ TaskReturn

MaxTasks == 2

secret_py ==
  File("secret.py",
       << Stmt(0, AssignStrStmt(nm_API_KEY, "\"", Literal(20, "a"))) >>, LF)

eval_py == File("eval.py", << Stmt(0, NameCallStmt(nm_eval)) >>, LF)

loop_py ==
  File("loop.py",
       << Stmt(0, ForStmt), Stmt(1, AttrCallStmt(nm_xs, nm_append, FALSE)) >>, LF)

TaskFiles == << secret_py, eval_py, broken_py, loop_py >>

\* the files of TaskFiles from number k on, n of them at most, in their order
RECURSIVE Picks(_, _)
Picks(k, n) ==
  IF k > Len(TaskFiles) \/ n = 0 THEN { <<>> }
  ELSE Picks(k + 1, n) \cup { << TaskFiles[k] >> \o b : b \in Picks(k + 1, n - 1) }

InitTasks ==
  /\ InitState
  /\ \E b \in Picks(1, MaxTasks) \ { <<>> } : calls = << b >>

NextTasks ==
  \/ Call
  \/ SecurityAnalyze
  \/ PerformanceAnalyze
  \/ CodeQualityAnalyze
  \/ Visit
  \/ Leave
  \/ AnalyzerReturn
  \/ Return
  \/ Spawn
  \/ TaskAnalyze
  \/ TaskVisit
  \/ TaskLeave
  \/ TaskReturn

SpecTasks == InitTasks /\ [][NextTasks]_vars

\* a public function with a complexity of 13 and no docstring
complex_py ==
  File("complex.py",
       << Stmt(0, DefStmt(nm_f)) >> \o Sequence(<< IfAndStmt(3) >>, 4, 1), LF)

OrderFiles == { complex_py, order_py, async_py, nest_py, cr_py, broken_py }

InitOrders ==
  /\ InitState
  /\ \E f \in OrderFiles : calls = << << f >> >>

NextOrders ==
  \/ Call
  \/ SecurityAnalyze
  \/ PerformanceAnalyze
  \/ CodeQualityAnalyze
  \/ Visit
  \/ Leave
  \/ AnalyzerReturn
  \/ Return
  \/ SpawnPermuted
  \/ TaskAnalyze
  \/ TaskVisit
  \/ TaskLeave
  \/ TaskReturn

SpecOrders == InitOrders /\ [][NextOrders]_vars

\* SQL: a query built from literals and the variable i, alone in the file or
\* after a first line; in the one shape the literal before the operator holds
\* the verb and the keyword, as in get_user of test_sample.py, in the other
\* the keyword comes in a second literal
QueryVerbs ==
  { << "S","E","L","E","C","T" >>, << "I","N","S","E","R","T" >>,
    << "U","P","D","A","T","E" >>, << "D","E","L","E","T","E" >>,
    << "D","R","O","P" >>, << "s","e","l","e","c","t" >> }
QueryKeywords ==
  { << "F","R","O","M" >>, << "W","H","E","R","E" >>, << "I","N","T","O" >>,
    << "V","A","L","U","E","S" >>, << "f","r","o","m" >> }
SqlStatements ==
  { ConcatStmt(v \o << " ","x"," " >> \o k \o << " ","t"," " >>, op, <<>>) :
      v \in QueryVerbs, k \in QueryKeywords, op \in { "+", "%" } }
  \cup
  { ConcatStmt(v \o << " " >>, op, << " " >> \o k \o << " ","t" >>) :
      v \in QueryVerbs, k \in QueryKeywords, op \in { "+", "%" } }
SqlPrograms ==
  { << Stmt(0, s) >> : s \in SqlStatements }
    \cup { << Stmt(0, PassStmt), Stmt(0, s) >> : s \in SqlStatements }

InitSql ==
  /\ InitState
  /\ calls \in { OneFile(File("db.py", q, LF)) : q \in SqlPrograms }

SpecSql == InitSql /\ [][Next]_vars

\* ------------------------------------------------ llm_reviewer.LLMReviewer
\* JSON values as json.loads gives them: t is the Python type; an int has
\* its value n, a float the fraction n/d, a bool 1 or 0, a str its
\* characters s, a dict its items, pairs of a key and a value
J(t, n, d, s, items) == [ t |-> t, n |-> n, d |-> d, s |-> s, items |-> items ]
JInt(v) == J("int", v, 1, <<>>, <<>>)
JFloat(num, den) == J("float", num, den, <<>>, <<>>)
JStr(v) == J("str", 0, 1, v, <<>>)
JBool(v) == J("bool", IF v THEN 1 ELSE 0, 1, <<>>, <<>>)
JNan == J("nan", 0, 1, <<>>, <<>>)
JInf == J("inf", 0, 1, <<>>, <<>>)
JNone == J("NoneType", 0, 1, <<>>, <<>>)
JList == J("list", 0, 1, <<>>, <<>>)
JDict(items) == J("dict", 0, 1, <<>>, items)
\* text that is no JSON document
JInvalid == J("invalid", 0, 1, <<>>, <<>>)

Value(x) == [ exc |-> "", value |-> x ]
Raise(e) == [ exc |-> e, value |-> 0 ]

DigitValue(c) ==
  CASE c = "0" -> 0 [] c = "1" -> 1 [] c = "2" -> 2 [] c = "3" -> 3 [] c = "4" -> 4
    [] c = "5" -> 5 [] c = "6" -> 6 [] c = "7" -> 7 [] c = "8" -> 8 [] c = "9" -> 9

RECURSIVE Decimal(_)
Decimal(ds) ==
  IF ds = <<>> THEN 0
  ELSE 10 * Decimal(SubSeq(ds, 1, Len(ds) - 1)) + DigitValue(ds[Len(ds)])

\* int() of the digits ds, after an optional sign
IntOfDigits(ds, sign) ==
  IF ds # <<>> /\ \A k \in 1..Len(ds) : ds[k] \in Digits
  THEN Value(sign * Decimal(ds))
  ELSE Raise("ValueError")

\* int() of a str, whose surrounding whitespace is gone
IntOfStr(s) ==
  IF s # <<>> /\ s[1] = "-" THEN IntOfDigits(Tail(s), -1)
  ELSE IF s # <<>> /\ s[1] = "+" THEN IntOfDigits(Tail(s), 1)
  ELSE IntOfDigits(s, 1)

\* int(x)
int(x) ==
  CASE x.t \in { "int", "bool" } -> Value(x.n)
    [] x.t = "float" -> Value(IF x.n >= 0 THEN x.n \div x.d
                              ELSE -((-x.n) \div x.d))
    [] x.t = "nan" -> Raise("ValueError")
    [] x.t = "inf" -> Raise("OverflowError")
    [] x.t = "str" -> IntOfStr(strip(x.s))
    [] OTHER -> Raise("TypeError")

\* dict.get(key, default)
get(d, k, default) ==
  IF \E i \in 1..Len(d.items) : d.items[i][1] = k
  THEN d.items[CHOOSE i \in 1..Len(d.items) : d.items[i][1] = k][2]
  ELSE default

\* a severity that is taken as it is
clamp_none(n) == n

\* max(1, min(5, n))
clamp(n) == Max(1, Min(5, n))

\* the answer of the model: a fence (json for ```json, plain for ```, or
\* none: ""), the text
\* of a JSON document doc or text that is none, then the closing fence when
\* closed; last is the last character of the answer
Content(fence, closed, last, doc) ==
  [ fence |-> fence, closed |-> closed, last |-> last, doc |-> doc ]
NoContent == Content("None", FALSE, "", JInvalid)

\* json.loads(json_str): json_str is the document, stripped; without a
\* closing fence find gives -1 and the slice drops the last character of the
\* answer, which leaves the document whole when that was white space
loads(content) ==
  IF content.doc.t = "invalid" THEN Raise("JSONDecodeError")
  ELSE IF content.fence = "" \/ content.closed \/ content.last = " "
  THEN Value(content.doc)
  ELSE IF content.doc.t = "int" /\ content.doc.n >= 10
  THEN Value(JInt(content.doc.n \div 10))
  ELSE Raise("JSONDecodeError")

\* the except clause of _parse_llm_response
ParseFailed(e) ==
  IF e \in { "JSONDecodeError", "ValueError", "KeyError" }
  THEN Value([ explanation |-> JStr(<< "content[:200]" >>),
               suggested_fix |-> JStr(<< "See explanation for details" >>),
               severity |-> 3 ])
  ELSE Raise(e)

\* the dict _parse_llm_response returns for the parsed document, severity
\* being the outcome of int(parsed.get('severity', 3))
Normalized(parsed, severity) ==
  IF severity.exc # "" THEN ParseFailed(severity.exc)
  ELSE Value([ explanation |->
                 get(parsed, "explanation", JStr(<< "No explanation provided" >>)),
               suggested_fix |->
                 get(parsed, "suggested_fix", JStr(<< "No fix suggested" >>)),
               severity |-> clamp(severity.value) ])

Loaded(parsed) ==
  IF parsed.exc # "" THEN ParseFailed(parsed.exc)
  ELSE IF parsed.value.t # "dict" THEN Raise("AttributeError")
  ELSE Normalized(parsed.value, int(get(parsed.value, "severity", JInt(3))))

_parse_llm_response(content) ==
  IF content.fence = "None" THEN Raise("TypeError")
  ELSE Loaded(loads(content))

severity_map(category) ==
  IF category = SECURITY THEN 4
  ELSE IF category = PERFORMANCE THEN 3
  ELSE IF category = CODE_QUALITY THEN 2
  ELSE 3

_create_fallback_enhancement(finding) ==
  finding @@ [ explanation |-> JStr(<< "This issue was detected by static analysis." >>),
               suggested_fix |->
                 JStr(<< "Please review the code and apply appropriate fixes." >>),
               severity |-> severity_map(finding.category) ]

\* EnhancedFinding(...): pydantic checks the types of the fields; strict
\* tells whether it refuses a value that is no str for a str field
EnhancedFinding(finding, parsed, strict) ==
  IF strict /\ (parsed.explanation.t # "str" \/ parsed.suggested_fix.t # "str")
  THEN Raise("ValidationError")
  ELSE Value(finding @@ parsed)

\* _enhance_single_finding, once _parse_llm_response returned or raised
Enhanced(finding, parsed, strict) ==
  IF parsed.exc # "" THEN parsed
  ELSE EnhancedFinding(finding, parsed.value, strict)

_enhance_single_finding(finding, response, strict) ==
  IF response.raises THEN Raise("APIError")
  ELSE Enhanced(finding, _parse_llm_response(response.content), strict)

\* the body of the loop of _process_batch: try ... except Exception
Fallback(finding, enhancement) ==
  IF enhancement.exc # "" THEN _create_fallback_enhancement(finding)
  ELSE enhancement.value

batch_size == 5

\* what the API call does: it raises, or the message has a content
Answer(content) == [ raises |-> FALSE, content |-> content ]
ApiError == [ raises |-> TRUE, content |-> NoContent ]

SeverityValues ==
  { JInt(v) : v \in { -3, 0, 1, 2, 4, 5, 6, 100 } }
    \cup { JFloat(47, 10), JFloat(-5, 10), JFloat(59, 10), JFloat(9, 10) }
    \cup { JNan, JInf, JNone, JList, JBool(TRUE), JBool(FALSE) }
    \cup { JStr(s) : s \in { << "4" >>, << " ","2"," " >>, << "-","7" >>,
                             << "+","9" >>, << "h","i","g","h" >>,
                             << "4",".","5" >>, <<>> } }

Documents ==
  { JDict(<< << "explanation", JStr(<< "because" >>) >>,
               << "suggested_fix", JStr(<< "fix" >>) >>,
               << "severity", s >> >>) : s \in SeverityValues }
    \cup { JDict(<< << "explanation", JStr(<< "because" >>) >>,
                    << "suggested_fix", JStr(<< "fix" >>) >> >>),
           JDict(<< << "severity", JInt(2) >> >>),
           JDict(<< << "explanation", JNone >>,
                    << "suggested_fix", JStr(<< "fix" >>) >>,
                    << "severity", JInt(4) >> >>),
           JList, JNone, JInt(12), JInt(7), JStr(<< "4" >>), JInvalid }

\* the answers: every document in a closed json fence, and three documents
\* in each of the other wrappings (fence, closed, last character)
Responses ==
  { ApiError, Answer(NoContent) }
    \cup { Answer(Content("json", TRUE, "fence", d)) : d \in Documents }
    \cup { Answer(Content(w[1], w[2], w[3], d)) :
             w \in { << "", FALSE, " " >>, << "", FALSE, "}" >>,
                     << "plain", TRUE, "fence" >>, << "plain", TRUE, " " >>,
                     << "plain", FALSE, " " >>, << "plain", FALSE, "}" >>,
                     << "json", TRUE, " " >>, << "json", FALSE, " " >>,
                     << "json", FALSE, "}" >> },
             d \in { JDict(<< << "severity", JInt(9) >> >>), JInt(12), JInvalid } }

\* the API answers in every way for the first MaxVaried findings of a call
MaxVaried == 3
LateResponses ==
  { ApiError, Answer(Content("json", TRUE, "fence", JDict(<< << "severity", JInt(9) >> >>))) }

\* --------------------------------------- report_generator.ReportGenerator
\* the loop of _count_by_category over the findings still to count
RECURSIVE CategoryLoop(_, _)
CategoryLoop(fs, counts) ==
  IF fs = <<>> THEN counts
  ELSE CategoryLoop(Tail(fs), [ counts EXCEPT ![Head(fs).category] = @ + 1 ])

_count_by_category(fs) == CategoryLoop(fs, [ c \in IssueCategory |-> 0 ])

\* the loop of _count_by_severity: a severity outside 1..5 is not counted
RECURSIVE SeverityLoop(_, _)
SeverityLoop(fs, counts) ==
  IF fs = <<>> THEN counts
  ELSE SeverityLoop(Tail(fs),
         IF 1 <= Head(fs).severity /\ Head(fs).severity <= 5
         THEN [ counts EXCEPT ![Head(fs).severity] = @ + 1 ]
         ELSE counts)

_count_by_severity(fs) == SeverityLoop(fs, [ s \in 1..5 |-> 0 ])

\* a dict from file to count, as its items << file, count >> in insertion
\* order: the position of file in counts, 0 when it is no key
KeyIndex(counts, file) ==
  IF \E i \in 1..Len(counts) : counts[i][1] = file
  THEN CHOOSE i \in 1..Len(counts) : counts[i][1] = file
  ELSE 0

\* counts[file] = 1 for a file that has a finding
Counted_once(counts, file, k) ==
  IF k = 0 THEN Append(counts, << file, 1 >>)
  ELSE [ counts EXCEPT ![k] = << file, 1 >> ]

\* if file not in counts: counts[file] = 0; then counts[file] += 1
Counted(counts, file, k) ==
  IF k = 0 THEN Append(counts, << file, 1 >>)
  ELSE [ counts EXCEPT ![k] = << file, counts[k][2] + 1 >> ]

RECURSIVE FileLoop(_, _)
FileLoop(fs, counts) ==
  IF fs = <<>> THEN counts
  ELSE FileLoop(Tail(fs),
                Counted(counts, Head(fs).file, KeyIndex(counts, Head(fs).file)))

_count_by_file(fs) == FileLoop(fs, <<>>)

\* the dict _calculate_stats builds from the three counts
Stats(category_counts, severity_counts, file_counts) ==
  [ by_category |-> [ security |-> category_counts[SECURITY],
                      performance |-> category_counts[PERFORMANCE],
                      code_quality |-> category_counts[CODE_QUALITY] ],
    by_severity |-> [ critical |-> severity_counts[5], high |-> severity_counts[4],
                      medium |-> severity_counts[3], low |-> severity_counts[2],
                      info |-> severity_counts[1] ],
    by_file |-> file_counts,
    total_files_analyzed |-> Len(file_counts) ]

_calculate_stats(fs) ==
  Stats(_count_by_category(fs), _count_by_severity(fs), _count_by_file(fs))

generate_report(repo_url, enhanced_findings) ==
  [ repo_url |-> repo_url, total_issues |-> Len(enhanced_findings),
    findings |-> enhanced_findings, stats |-> _calculate_stats(enhanced_findings) ]

repo_url == "https://github.com/owner/repo"

\* the findings enhance_findings is called with (main.py)
Reviewed == results[run].findings

\* llm_reviewer.enhance_findings(findings), after analyze_code returned
EnhanceCall ==
  /\ pc = "idle"
  /\ run = Len(calls)
  /\ run > 0
  /\ results[run].status = "returned"
  /\ review.pc = "idle"
  /\ review' = [ review EXCEPT !.pc = IF Reviewed = <<>> THEN "done" ELSE "batch" ]
  /\ UNCHANGED << run_vars, tasks >>

\* the finding that _process_batch enhances next
NextReviewed == review.i + Len(review.batch) + 1

\* one finding of the batch is enhanced: the API answers, or raises
ProcessFinding ==
  /\ review.pc = "batch"
  /\ NextReviewed <= Min(review.i + batch_size, Len(Reviewed))
  /\ \E response \in IF NextReviewed <= MaxVaried THEN Responses ELSE LateResponses,
        strict \in BOOLEAN :
       review' = [ review EXCEPT !.batch =
         Append(@, Fallback(Reviewed[NextReviewed],
                     _enhance_single_finding(Reviewed[NextReviewed],
                                             response, strict))) ]
  /\ UNCHANGED << run_vars, tasks >>

\* enhanced = self._process_batch(batch) in place of enhanced.extend(...)
BatchReturn_assigned ==
  /\ review.pc = "batch"
  /\ NextReviewed > Min(review.i + batch_size, Len(Reviewed))
  /\ review' = [ review EXCEPT !.enhanced = review.batch,
                               !.batch = <<>>,
                               !.i = @ + batch_size,
                               !.pc = IF review.i + batch_size >= Len(Reviewed)
                                      THEN "done" ELSE "batch" ]
  /\ UNCHANGED << run_vars, tasks >>

\* _process_batch returns and enhance_findings extends enhanced; after the
\* last batch it returns
BatchReturn ==
  /\ review.pc = "batch"
  /\ NextReviewed > Min(review.i + batch_size, Len(Reviewed))
  /\ review' = [ review EXCEPT !.enhanced = @ \o review.batch,
                               !.batch = <<>>,
                               !.i = @ + batch_size,
                               !.pc = IF review.i + batch_size >= Len(Reviewed)
                                      THEN "done" ELSE "batch" ]
  /\ UNCHANGED << run_vars, tasks >>

\* main.review, step 4: the report on what enhance_findings returned
GenerateReport ==
  /\ review.pc = "done"
  /\ review' = [ review EXCEPT !.report = generate_report(repo_url, review.enhanced),
                               !.pc = "reported" ]
  /\ UNCHANGED << run_vars, tasks >>

\* six calls of eval, one on each line: six findings, two batches
many_py ==
  File("many.py", [ k \in 1..(batch_size + 1) |-> Stmt(0, NameCallStmt(nm_eval)) ], LF)

ReviewFiles == { many_py, order_py, complex_py, cr_py, loop_py }

InitReview ==
  /\ InitState
  /\ \E f \in ReviewFiles : calls = << << f >> >>

NextReview ==
  \/ Call
  \/ SecurityAnalyze
  \/ PerformanceAnalyze
  \/ CodeQualityAnalyze
  \/ Visit
  \/ Leave
  \/ AnalyzerReturn
  \/ Return
  \/ EnhanceCall
  \/ ProcessFinding
  \/ BatchReturn
  \/ GenerateReport

SpecReview == InitReview /\ [][NextReview]_vars

\* appends: calls of xs.append in nests of for, while and if
MaxAppendLines == 5
AppendForms == { ForStmt, WhileStmt, IfStmt, AttrCallStmt(nm_xs, nm_append, FALSE) }
AppendPrograms ==
  { q \in Programs(AppendForms, MaxAppendLines) : q # <<>> /\ WellFormed(q) }

InitAppends ==
  /\ InitState
  /\ calls \in { OneFile(File("build.py", q, LF)) : q \in AppendPrograms }

SpecAppends == InitAppends /\ [][Next]_vars

\* comprehensions: a list comprehension with one or two generators, each over
\* a name or over a list comprehension, on line 1 or 2 of the file
ListCompPrograms ==
  { << Stmt(0, ListCompStmt(s)) >> : s \in BOOLEAN \X BOOLEAN \cup { << TRUE >>, << FALSE >> } }
    \cup { << Stmt(0, PassStmt), Stmt(0, ListCompStmt(s)) >> :
             s \in BOOLEAN \X BOOLEAN \cup { << TRUE >>, << FALSE >> } }

InitListComps ==
  /\ InitState
  /\ calls \in { OneFile(File("comp.py", q, LF)) : q \in ListCompPrograms }

SpecListComps == InitListComps /\ [][Next]_vars

\* calls: one call, bare or on a receiver, with or without shell=..., alone
\* or as the argument of print, on line 1 or after a line json.loads(i)
nm_subprocess == << "s","u","b","p","r","o","c","e","s","s" >>
nm_json == << "j","s","o","n" >>
nm_load == << "l","o","a","d" >>
FalseConst == [ type |-> "bool", value |-> << "F","a","l","s","e" >> ]
Receivers ==
  { <<>>, << nm_os >>, << nm_pickle >>, << nm_subprocess >>, << nm_json >>,
    << nm_xs, nm_pickle >>, << nm_xs, nm_os >> }
Callees == { nm_loads, nm_load, nm_system, nm_Popen, nm_call, nm_run }
ShellValues == { NoConst, TrueConst, FalseConst, IntConst("1") }
CallStatements ==
  { CallStmt(recv, func, shell, wrapped) :
      recv \in Receivers, func \in Callees, shell \in ShellValues,
      wrapped \in BOOLEAN }
CallPrograms ==
  { << Stmt(0, s) >> : s \in CallStatements }
    \cup { << Stmt(0, CallStmt(<< nm_json >>, nm_loads, NoConst, FALSE)),
              Stmt(0, s) >> : s \in CallStatements }

InitCalls ==
  /\ InitState
  /\ calls \in { OneFile(File("calls.py", q, LF)) : q \in CallPrograms }

SpecCalls == InitCalls /\ [][Next]_vars

\* docstrings: function, async function and class definitions, public and
\* private, nested in one another, with a docstring, an empty one or none
MaxDocLines == 4
nm_C == << "C" >>
nm__C == << "_","C" >>
nm_doc == << "d","o","c" >>
DocForms ==
  { DefStmt(nm_f), DefStmt(nm__f), AsyncDefStmt(nm_f), ClassStmt(nm_C),
    ClassStmt(nm__C), DocStmt(nm_doc), DocStmt(<<>>), PassStmt }
DocPrograms ==
  { q \in Programs(DocForms, MaxDocLines) : q # <<>> /\ WellFormed(q) }

InitDocs ==
  /\ InitState
  /\ calls \in { OneFile(File("docs.py", q, LF)) : q \in DocPrograms }

SpecDocs == InitDocs /\ [][Next]_vars

\* long functions: a def or async def, on line 1 or 2, whose body is n pass
\* statements, directly or inside one nested definition, with or without a
\* statement after it
MaxBody == 52
Passes(n, indent) == [ k \in 1..n |-> Stmt(indent, PassStmt) ]
LongHeaders == { DefStmt(nm_f), DefStmt(nm__f), AsyncDefStmt(nm_f) }
LongProgram(lead, header, inner, n, trail) ==
  Passes(lead, 0) \o << Stmt(0, header) >>
    \o (IF inner = PassStmt THEN Passes(n, 1)
        ELSE << Stmt(1, inner) >> \o Passes(n, 2))
    \o Passes(trail, 0)
LongPrograms ==
  { LongProgram(lead, header, inner, n, trail) :
      lead \in 0..1, header \in LongHeaders,
      inner \in LongHeaders \cup { PassStmt },
      n \in (max_function_length - 2)..MaxBody, trail \in 0..1 }

InitLong ==
  /\ InitState
  /\ calls \in { OneFile(File("long.py", q, LF)) : q \in LongPrograms }

SpecLong == InitLong /\ [][Next]_vars

\* texts: lines with a password, a query built by concatenation, the two
\* halves of a password assignment broken after the = sign, and if, each
\* indented or not, in any order (most of these texts do not parse), with
\* line feeds, carriage returns or both between the lines
MaxTextLines == 3
nm_password == << "p","a","s","s","w","o","r","d" >>
CRLF == << "\r","\n" >>
TextForms ==
  { AssignStrStmt(nm_password, "\"", nm_doc), HalfAssignStmt(nm_password),
    DocStmt(nm_doc),
    ConcatStmt(<< "D","R","O","P"," " >>, "+", << " ","I","N","T","O" >>),
    IfStmt }
RECURSIVE Texts(_, _)
Texts(forms, n) ==
  IF n = 0 THEN { <<>> }
  ELSE Texts(forms, n - 1) \cup
       { Append(q, Stmt(d, f)) :
           q \in { r \in Texts(forms, n - 1) : Len(r) = n - 1 },
           d \in 0..1, f \in forms }
TextPrograms == Texts(TextForms, MaxTextLines) \ { <<>> }

InitTexts ==
  /\ InitState
  /\ calls \in { OneFile(File("text.py", q, eol)) :
                   q \in TextPrograms, eol \in { LF, CR, CRLF } }

SpecTexts == InitTexts /\ [][Next]_vars

\* batches: files with n calls of eval, one finding each, for every n up to
\* MaxReviewed, and a file without findings
MaxReviewed == 6
EvalFile(n) ==
  File("evals.py",
       IF n = 0 THEN << Stmt(0, PassStmt) >>
       ELSE [ k \in 1..n |-> Stmt(0, NameCallStmt(nm_eval)) ], LF)

InitBatches ==
  /\ InitState
  /\ \E n \in 0..MaxReviewed : calls = << << EvalFile(n) >> >>

SpecBatches == InitBatches /\ [][NextReview]_vars

\* reports: calls on one or two files of different categories of findings,
\* a file without findings among them
ReportFiles == { eval_py, loop_py, complex_py, order_py, EvalFile(0) }
ReportCalls ==
  { << f >> : f \in ReportFiles }
    \cup { c \in { << f, g >> : f \in ReportFiles, g \in ReportFiles } :
             c[1] # c[2] }

InitReports ==
  /\ InitState
  /\ \E c \in ReportCalls : calls = << c >>

SpecReports == InitReports /\ [][NextReview]_vars

\* ------------------------------------------------------------ properties
TextIssues ==
  { patterns[k].message : k \in 1..Len(patterns) }
    \cup { "Potential SQL injection: SQL query uses string concatenation" }

\* pre-order depth-first sequence of the nodes below and including n
RECURSIVE PreOrder(_, _)
RECURSIVE PreOrderAll(_, _)
PreOrder(t, n) == << n >> \o PreOrderAll(t, Children(t, n))
PreOrderAll(t, ns) ==
  IF ns = <<>> THEN <<>> ELSE PreOrder(t, Head(ns)) \o PreOrderAll(t, Tail(ns))

Position(seq, x) == CHOOSE i \in 1..Len(seq) : seq[i] = x
\* node a comes before node b in the pre-order traversal of t
Before(t, a, b) == Position(PreOrder(t, 1), a) < Position(PreOrder(t, 1), b)

AnalyzerIndex(a) == CHOOSE i \in 1..3 : Analyzers[i] = a
TreeOf(file) == Parse(file).tree
Parses(file) == Parse(file).status \in { "ok", "SyntaxError" }
PortionOf(fs, name) == SelectSeq(fs, LAMBDA f : f.file = name)

\* C1: in a batch whose files all parse or fail with a syntax error, a file
\* that fails with a syntax error leaves the findings of the other files as
\* they are without it, and contributes its text-pattern findings only
C1_ParseFailureIsolation ==
  \A k \in 1..Len(calls[1]) :
    ( /\ Len(results) = 2
      /\ calls[2] = Without(calls[1], k)
      /\ Parse(calls[1][k]).status = "SyntaxError"
      /\ \A g \in 1..Len(calls[1]) : Parses(calls[1][g]) )
    => /\ results[1].status = "returned"
       /\ results[2].status = "returned"
       /\ results[2].findings =
            SelectSeq(results[1].findings, LAMBDA f : f.file # calls[1][k].name)
       /\ LET broken == calls[1][k]
              code == Code(broken)
              lines == split(code, "\n")
          IN  /\ PortionOf(results[1].findings, broken.name) =
                   _check_hardcoded_secrets(broken.name, code, lines)
                     \o _check_sql_injection(broken.name, code, lines)
              /\ \A f \in Seq2Set(PortionOf(results[1].findings, broken.name)) :
                   f.issue.text \in TextIssues

C1_Witness ==
  /\ Len(results) = 2
  /\ Len(calls[1]) = 2
  /\ calls[2] = Without(calls[1], 1)
  /\ Parse(calls[1][1]).status = "SyntaxError"
  /\ results[1].status = "returned"
  /\ PortionOf(results[1].findings, calls[1][1].name) # <<>>
  /\ PortionOf(results[1].findings, calls[1][2].name) # <<>>
  /\ results[2].status = "returned"

\* C2: every call of analyze_code returns a findings list, whatever makes
\* the parse step or a callback fail
C2_NeverAborts == \A i \in 1..Len(results) : results[i].status = "returned"

\* C3: two calls of analyze_code on the same mapping give the same result
C3_Deterministic ==
  (Len(results) = 2 /\ calls[1] = calls[2]) => results[1] = results[2]

C3_Witness ==
  /\ Len(results) = 2
  /\ calls[1] = calls[2]
  /\ Len(calls[1]) = 2
  /\ results[2].status = "returned"
  /\ \E i, j \in 1..Len(results[2].findings) :
       results[2].findings[i].file # results[2].findings[j].file

\* C4: every finding has line >= 1 and a context that holds the line it
\* reports: line is an index of the lines of the file split on line feeds
HoldsLine(f, file) ==
  LET lines == split(Code(file), "\n")
      shown == split(f.context, "\n")
  IN  /\ f.line >= 1
      /\ f.line <= Len(lines)
      /\ \E k \in 1..Len(shown) :
           shown[k] = << ">", ">", ">", " " >> \o rstrip(lines[f.line])

C4_LineInContext ==
  pc = "return" =>
    \A i \in 1..Len(all_findings) :
      \A g \in 1..Len(files) :
        files[g].name = all_findings[i].file => HoldsLine(all_findings[i], files[g])

\* the source file of the only call, and its tree
TheFile == calls[1][1]
TheTree == TreeOf(TheFile)
NodesOf(t) == 1..Len(t)
HowMany(fs, Test(_)) == Cardinality({ i \in 1..Len(fs) : Test(fs[i]) })

LoopKinds == { "For", "While" }
\* number of for/while nodes among node n and its ancestors
RECURSIVE LoopDepth(_, _)
LoopDepth(t, n) ==
  IF n = 0 THEN 0
  ELSE (IF t[n].kind \in LoopKinds THEN 1 ELSE 0) + LoopDepth(t, t[n].parent)

DeepTexts ==
  { "Deeply nested loop (depth {}) may cause performance issues",
    "Deeply nested while loop (depth {}) may cause performance issues" }

\* C5: the output has one deep-nesting finding for each for/while node of
\* loop depth 3 or more, at the line of that node, and no other
C5_DeepNesting ==
  pc = "return" =>
    LET t == TheTree
        deep == { i \in 1..Len(all_findings) :
                    all_findings[i].issue.text \in DeepTexts }
    IN  /\ Len(log) = Len(all_findings)
        /\ \A n \in NodesOf(t) :
             t[n].kind \in LoopKinds =>
               LET mine == { i \in deep : log[i].at = n }
               IN  /\ Cardinality(mine) = IF LoopDepth(t, n) >= 3 THEN 1 ELSE 0
                   /\ \A i \in mine :
                        /\ all_findings[i].line = t[n].lineno
                        /\ all_findings[i].category = PERFORMANCE
        /\ \A i \in deep : t[log[i].at].kind \in LoopKinds

\* a triple-nested for loop was analysed: one finding, at the third loop
C5_Witness ==
  /\ pc = "return"
  /\ Len(TheFile.stmts) >= 4
  /\ \A k \in 1..3 : TheFile.stmts[k] = Stmt(k - 1, ForStmt)
  /\ TheFile.stmts[4] = Stmt(3, PassStmt)
  /\ HowMany(all_findings, LAMBDA f : f.issue.text \in DeepTexts) = 1
  /\ \E i \in 1..Len(all_findings) :
       all_findings[i].issue.text \in DeepTexts /\ all_findings[i].line = 3

FunctionKinds == { "FunctionDef", "AsyncFunctionDef" }
\* the nearest function definition around node n, 0 when there is none
RECURSIVE EnclosingFunction(_, _)
EnclosingFunction(t, n) ==
  IF t[n].parent = 0 THEN 0
  ELSE IF t[t[n].parent].kind \in FunctionKinds THEN t[n].parent
  ELSE EnclosingFunction(t, t[n].parent)

InAsyncBody(t, n) ==
  /\ EnclosingFunction(t, n) # 0
  /\ t[EnclosingFunction(t, n)].kind = "AsyncFunctionDef"

BlockingTexts ==
  { "Blocking call '{}()' in async function - use async version",
    "Use 'await asyncio.sleep()' instead of 'time.sleep()' in async functions" }

\* C6: a call is visited with the flag true exactly when the function
\* definition nearest around it is an async one, and a call in a plain
\* function gets no blocking-call finding
C6_NestedDefNotAsync ==
  /\ (pc = "visit" /\ analyzer = "performance" /\ stack # <<>>
        /\ tree[stack[Len(stack)].node].kind = "Call")
     => visitor.in_async_function = InAsyncBody(tree, stack[Len(stack)].node)
  /\ pc = "return" =>
       \A i \in 1..Len(all_findings) :
         all_findings[i].issue.text \in BlockingTexts
           => InAsyncBody(TreeOf(files[log[i].file]), log[i].at)

\* the calls that the blocking-call rule is about
BlockingShaped(t, n) ==
  /\ t[n].kind = "Call"
  /\ LET func == FieldNodes(t, n, "func")[1]
     IN  \/ /\ t[func].kind = "Attribute"
            /\ t[func].name \in { nm_sleep, nm_read, << "w","r","i","t","e" >>,
                                  << "c","o","n","n","e","c","t" >> }
         \/ t[func].kind = "Name" /\ t[func].name = nm_sleep

ReceiverIsAsyncio(t, n) ==
  LET func == FieldNodes(t, n, "func")[1]
  IN  /\ t[func].kind = "Attribute"
      /\ t[FieldNodes(t, func, "value")[1]].kind = "Name"
      /\ t[FieldNodes(t, func, "value")[1]].name = nm_asyncio

C7_Step ==
  (pc = "visit" /\ analyzer = "performance" /\ Len(stack') = Len(stack) + 1) =>
    LET n == stack'[Len(stack')].node
        before == Len(visitor.findings)
        new == SubSeq(visitor'.findings, before + 1, Len(visitor'.findings))
    IN  IF BlockingShaped(tree, n)
        THEN /\ Len(new) = IF visitor.in_async_function /\ ~ReceiverIsAsyncio(tree, n)
                           THEN 1 ELSE 0
             /\ \A k \in 1..Len(new) :
                  /\ new[k].issue.text \in BlockingTexts
                  /\ new[k].category = PERFORMANCE
                  /\ new[k].line = tree[n].lineno
        ELSE \A k \in 1..Len(new) :
               \A m \in NodesOf(tree) :
                 BlockingShaped(tree, m) => new[k].line # tree[m].lineno

\* C7: the callback of a call named sleep, read, write or connect appends one
\* blocking-call finding when the flag is true and the receiver is not the
\* name asyncio, none otherwise; no other callback reports such a call
C7_AsyncAllowList == [][C7_Step]_vars

\* async def f(): / await asyncio.sleep(5) / time.sleep(5) was analysed
C7_Witness ==
  /\ pc = "return"
  /\ TheFile.stmts =
       << Stmt(0, AsyncDefStmt(nm_f)),
          Stmt(1, AttrCallStmt(nm_asyncio, nm_sleep, TRUE)),
          Stmt(1, AttrCallStmt(nm_time, nm_sleep, FALSE)) >>
  /\ HowMany(all_findings, LAMBDA f : f.category = PERFORMANCE) = 1
  /\ \E i \in 1..Len(all_findings) :
       all_findings[i].category = PERFORMANCE /\ all_findings[i].line = 3

\* 1 + #if + #for + #while + #handlers + sum of (operands - 1), over the
\* nodes below n
Complexity(t, n) ==
  LET below == { m \in NodesOf(t) : Under(t, n, m) }
      branches == { m \in below : t[m].kind \in { "If", "For", "While",
                                                   "ExceptHandler" } }
      operands == { m \in below : t[m].parent # 0 /\ t[m].parent \in below
                                  /\ t[t[m].parent].kind = "BoolOp" }
      boolops == { m \in below : t[m].kind = "BoolOp" }
  IN  1 + Cardinality(branches) + Cardinality(operands) - Cardinality(boolops)

ComplexityText ==
  "Function '{}' has high cyclomatic complexity ({}) - consider simplifying"

Flagged(t, n) ==
  { i \in 1..Len(all_findings) :
      /\ all_findings[i].issue.text = ComplexityText
      /\ log[i].at = n }

ComplexityRule(t, n) ==
  /\ Cardinality(Flagged(t, n)) = IF Complexity(t, n) > 10 THEN 1 ELSE 0
  /\ \A i \in Flagged(t, n) :
       /\ all_findings[i].issue.args = << t[n].name, Complexity(t, n) >>
       /\ all_findings[i].line = t[n].lineno

\* C8: every function gets a high-complexity finding, with the value of the
\* formula, exactly when that value is greater than 10
C8_ComplexityFlagged ==
  pc = "return" =>
    \A n \in NodesOf(TheTree) :
      TheTree[n].kind \in FunctionKinds => ComplexityRule(TheTree, n)

\* the same for the functions defined with a plain def
ComplexityOfDef ==
  pc = "return" =>
    \A n \in NodesOf(TheTree) :
      TheTree[n].kind = "FunctionDef" => ComplexityRule(TheTree, n)

\* C9: NAME = "literal" gets one Security finding when the literal has 20
\* characters or more, none when it is shorter
C9_SecretThreshold ==
  pc = "return" =>
    HowMany(all_findings, LAMBDA f : f.category = SECURITY)
      = IF Len(TheFile.stmts[1].form.nodes[3].const.value) >= 20 THEN 1 ELSE 0

C9_Witness ==
  /\ pc = "return"
  /\ TheFile.stmts[1].form.nodes[3].const.value = sk_live
  /\ Len(all_findings) = 1
  /\ all_findings[1].issue.text = "Hardcoded API key detected"
  /\ all_findings[1].line = 1

\* the history variable and the output describe the same findings
LogMatchesOutput ==
  /\ Len(log) = Len(all_findings)
  /\ \A i \in 1..Len(log) :
       /\ all_findings[i].file = files[log[i].file].name
       /\ (log[i].at = 0) = (all_findings[i].issue.text \in TextIssues)
       /\ log[i].at # 0 =>
            all_findings[i].line = TreeOf(files[log[i].file])[log[i].at].lineno

Shown(lines, lo, hi, n) ==
  [ k \in 1..Max(0, hi - lo + 1) |->
      (IF lo + k - 1 = n THEN << ">", ">", ">", " " >> ELSE << " ", " ", " ", " " >>)
        \o rstrip(lines[lo + k - 1]) ]

\* C11 as stated: the context of every finding has 2k+1 lines, the middle
\* one being the marked line of the finding
C11_SevenLines ==
  pc = "return" =>
    \A i \in 1..Len(all_findings) :
      LET f == all_findings[i]
          lines == split(Code(files[log[i].file]), "\n")
          shown == split(f.context, "\n")
      IN  /\ Len(shown) = 2 * context_size + 1
          /\ f.line \in 1..Len(lines)
          /\ shown[context_size + 1] = << ">", ">", ">", " " >> \o rstrip(lines[f.line])

\* C11 as amended: the context is made of the lines numbered
\* max(1, line - k) .. min(N, line + k) of the N lines of the file, so it has
\* 2k+1 lines centred on the finding's line when k < line <= N - k
C11_ClippedBlock ==
  pc = "return" =>
    /\ Len(log) = Len(all_findings)
    /\ \A i \in 1..Len(all_findings) :
         LET f == all_findings[i]
             lines == split(Code(files[log[i].file]), "\n")
             lo == Max(1, f.line - context_size)
             hi == Min(Len(lines), f.line + context_size)
         IN  /\ f.context = join(<< "\n" >>, Shown(lines, lo, hi, f.line))
             /\ (f.line > context_size /\ f.line + context_size <= Len(lines)) =>
                  /\ Len(split(f.context, "\n")) = 2 * context_size + 1
                  /\ split(f.context, "\n")[context_size + 1]
                       = << ">", ">", ">", " " >> \o rstrip(lines[f.line])

\* findings with a whole block, with a block cut at the first line and with
\* a block cut at the last line have been returned
C11_Witness ==
  /\ pc = "return"
  /\ Len(all_findings) = 1
  /\ Len(split(Code(TheFile), "\n")) = MaxFileLines
  /\ all_findings[1].line = 2
  /\ Len(split(all_findings[1].context, "\n")) = 2 + context_size

\* every task is over
TasksDone == tasks # <<>> /\ \A t \in 1..Len(tasks) : tasks[t].pc = "done"

\* C12: when the analyses of the files of a call ran as tasks, interleaved in
\* any way, and the sequential call returned, every task has exactly the
\* findings, in the same order, that the sequential call has for its file
C12_TasksMatchSequential ==
  (TasksDone /\ results[run].status = "returned") =>
    \A t \in 1..Len(tasks) :
      tasks[t].out = PortionOf(results[run].findings, files[t].name)

\* the tasks of a call finished, all with findings, after each of them took
\* steps while another was running
C12_Witness ==
  /\ TasksDone
  /\ Len(tasks) = MaxTasks
  /\ results[run].status = "returned"
  /\ \A t \in 1..Len(tasks) : tasks[t].out # <<>> /\ tasks[t].met

\* how many times f is in the list fs
Occurrences(fs, f) == Cardinality({ k \in 1..Len(fs) : fs[k] = f })

SameFindings(fs, gs) ==
  /\ Len(fs) = Len(gs)
  /\ \A k \in 1..Len(fs) : Occurrences(fs, fs[k]) = Occurrences(gs, fs[k])

\* C13: with the rule sets run in any order and the checks of every callback
\* made in any order, the analysis of a file gives the findings of the
\* sequential call, each as many times, whatever their order
C13_OrderInsensitive ==
  \A t \in 1..Len(tasks) :
    (tasks[t].pc = "done" /\ results[run].status = "returned") =>
      SameFindings(tasks[t].out, results[run].findings)

\* the analysis of a function that two checks of one callback report is over,
\* with the rule sets and the checks in another order and the findings in
\* another order than in the sequential call
C13_Witness ==
  /\ TasksDone
  /\ results[run].status = "returned"
  /\ tasks[1].order # Analyzers
  /\ tasks[1].perm # IdentityOrder
  /\ tasks[1].out # results[run].findings
  /\ \E i, j \in 1..Len(tasks[1].out) :
       /\ i < j
       /\ tasks[1].out[i].category = CODE_QUALITY
       /\ tasks[1].out[j].category = CODE_QUALITY
       /\ tasks[1].out[i].line = tasks[1].out[j].line
       /\ Position(results[run].findings, tasks[1].out[j])
            < Position(results[run].findings, tasks[1].out[i])

\* the word w is in the text s, in upper or lower case
Contains(s, w) ==
  \E i \in 1..(Len(s) - Len(w) + 1) :
    \A k \in 1..Len(w) : lower(s[i + k - 1]) = lower(w[k])

RECURSIVE Flatten(_)
Flatten(seqs) ==
  IF seqs = <<>> THEN <<>> ELSE Head(seqs) \o Flatten(Tail(seqs))

\* the string literals under node n of t, one after the other
LiteralsUnder(t, n) ==
  Flatten([ k \in 1..Len(t) |->
            IF Under(t, n, k) /\ t[k].kind = "Constant" /\ t[k].const.type = "str"
            THEN t[k].const.value ELSE <<>> ])

\* node n is a concatenation, assigned to a name, of a variable with
\* literals that hold an SQL verb and a FROM/WHERE/INTO/VALUES keyword
SqlConcatenation(t, n) ==
  /\ t[n].kind = "BinOp"
  /\ t[t[n].parent].kind = "Assign"
  /\ \E k \in 1..Len(t) : Under(t, n, k) /\ t[k].kind = "Name"
  /\ \E v \in Seq2Set(SqlVerbs) : Contains(LiteralsUnder(t, n), v)
  /\ \E w \in Seq2Set(SqlKeywords) : Contains(LiteralsUnder(t, n), w)

SqlText == "Potential SQL injection: SQL query uses string concatenation"

\* C14: a statement that concatenates a variable with literals holding an SQL
\* verb and a FROM/WHERE/INTO/VALUES keyword has a 'Potential SQL injection'
\* Security finding at its line, wherever the operator is
C14_SqlConcatFlagged ==
  pc = "return" =>
    \A n \in NodesOf(TheTree) :
      SqlConcatenation(TheTree, n) =>
        \E i \in 1..Len(all_findings) :
          /\ all_findings[i].line = TheTree[n].lineno
          /\ all_findings[i].category = SECURITY
          /\ all_findings[i].issue.text = SqlText

\* what the pattern does: the query is reported where an operator stands
\* between the verb and a keyword later on the line
SqlOperatorFirst ==
  pc = "return" =>
    \A n \in NodesOf(TheTree) :
      SqlConcatenation(TheTree, n) =>
        ((\E i \in 1..Len(all_findings) :
            /\ all_findings[i].line = TheTree[n].lineno
            /\ all_findings[i].issue.text = SqlText)
         <=> \E k \in 1..Len(TheTree) :
               /\ TheTree[k].kind = "Constant"
               /\ TheTree[k].field = "right"
               /\ \E w \in Seq2Set(SqlKeywords) : Contains(TheTree[k].const.value, w))

\* C15: every enhanced finding, in the batch in progress or in the list
\* enhance_findings returns, has a severity that is an integer from 1 to 5
C15_SeverityInRange ==
  \A e \in Seq2Set(review.batch) \cup Seq2Set(review.enhanced) :
    e.severity \in 1..5

\* enhance_findings returned two batches: the first findings got an answer
\* with a severity above 5, one below 1, an answer that is no JSON and an
\* API call that raised
C15_Witness ==
  /\ review.pc = "done"
  /\ Len(review.enhanced) > batch_size
  /\ review.enhanced[1].severity = 5
  /\ review.enhanced[1].explanation = JStr(<< "because" >>)
  /\ review.enhanced[2].severity = 1
  /\ review.enhanced[2].explanation = JStr(<< "because" >>)
  /\ review.enhanced[3].explanation = JStr(<< "content[:200]" >>)
  /\ review.enhanced[4].explanation = JStr(<< "This issue was detected by static analysis." >>)

\* the for/while nodes whose visit was entered and is not over: those with a
\* frame on the stack
OpenLoops == { k \in 1..Len(stack) : tree[stack[k].node].kind \in LoopKinds }

\* C16: during the traversal of a file by the performance visitor loop_depth
\* is the number of for/while nodes entered and not yet left, it is never
\* negative, and it is 0 when the traversal is over
C16_LoopDepthCounts ==
  (analyzer = "performance" /\ pc \in { "visit", "visited" }) =>
    /\ visitor.loop_depth = Cardinality(OpenLoops)
    /\ visitor.loop_depth >= 0
    /\ pc = "visited" => visitor.loop_depth = 0

\* the traversal is in the body of a while loop inside a for loop, after it
\* left a loop before these two
C16_Witness ==
  /\ analyzer = "performance"
  /\ pc = "visit"
  /\ visitor.loop_depth = 2
  /\ \E a, b \in OpenLoops : tree[stack[a].node].kind = "For"
                             /\ tree[stack[b].node].kind = "While"
  /\ tree[stack[Len(stack)].node].kind = "Pass"
  /\ \E n \in NodesOf(tree) :
       /\ tree[n].kind \in LoopKinds
       /\ n < stack[Len(stack)].node
       /\ \A k \in 1..Len(stack) : stack[k].node # n

AppendText ==
  "List append in loop - consider using list comprehension for better performance"

\* node c of t is a call X.append(...)
IsAppendCall(t, c) ==
  /\ t[c].kind = "Call"
  /\ t[FieldNodes(t, c, "func")[1]].kind = "Attribute"
  /\ t[FieldNodes(t, c, "func")[1]].name = nm_append

\* the for nodes at nesting depth exactly 1 that node c is under
OuterFors(t, c) ==
  { a \in NodesOf(t) : t[a].kind = "For" /\ LoopDepth(t, a) = 1 /\ Under(t, a, c) }

\* C17: on every line there are as many append findings as there are calls
\* X.append(...) on it that are under a for node at depth 1, whatever loops
\* are between that node and the call; no call is under two such nodes, and
\* the callback of a for node at another depth adds no append finding
C17_AppendOncePerCall ==
  pc = "return" =>
    /\ \A l \in 1..Len(TheFile.stmts) :
         HowMany(all_findings, LAMBDA f : f.issue.text = AppendText /\ f.line = l)
           = Cardinality({ c \in NodesOf(TheTree) :
                             /\ IsAppendCall(TheTree, c)
                             /\ TheTree[c].lineno = l
                             /\ OuterFors(TheTree, c) # {} })
    /\ \A c \in NodesOf(TheTree) : Cardinality(OuterFors(TheTree, c)) <= 1
    /\ \A i \in 1..Len(all_findings) :
         all_findings[i].issue.text = AppendText =>
           /\ TheTree[log[i].by].kind = "For"
           /\ LoopDepth(TheTree, log[i].by) = 1
           /\ IsAppendCall(TheTree, log[i].at)
           /\ all_findings[i].line = TheTree[log[i].at].lineno

\* a call of append inside a while loop under a for at depth 1 got its one
\* finding, and a call under a while loop alone got none
C17_Witness ==
  /\ pc = "return"
  /\ HowMany(all_findings, LAMBDA f : f.issue.text = AppendText) = 1
  /\ \E c, d \in NodesOf(TheTree) :
       /\ IsAppendCall(TheTree, c)
       /\ LoopDepth(TheTree, c) = 2
       /\ OuterFors(TheTree, c) # {}
       /\ IsAppendCall(TheTree, d)
       /\ LoopDepth(TheTree, d) = 1
       /\ OuterFors(TheTree, d) = {}

NestedText ==
  "Nested list comprehension detected - consider breaking into separate steps for readability"

\* the generators of the comprehension n whose source is a comprehension
NestedGenerators(t, n) ==
  SelectSeq(FieldNodes(t, n, "generators"),
    LAMBDA g : t[FieldNodes(t, g, "iter")[1]].kind = "ListComp")

\* the findings about nesting that the callback of node n added
NestedFindings(n) ==
  { i \in 1..Len(all_findings) :
      all_findings[i].issue.text = NestedText /\ log[i].by = n }

\* C18: a list comprehension with a generator over another comprehension has
\* exactly one finding, at its line, however many such generators it has; a
\* comprehension without one has none
C18_NestedFlaggedOnce ==
  pc = "return" =>
    \A n \in NodesOf(TheTree) :
      TheTree[n].kind = "ListComp" =>
        /\ Cardinality(NestedFindings(n))
             = IF NestedGenerators(TheTree, n) # <<>> THEN 1 ELSE 0
        /\ \A i \in NestedFindings(n) : all_findings[i].line = TheTree[n].lineno

\* what visit_ListComp does: one finding for each generator over a list
\* comprehension
NestedPerGenerator ==
  pc = "return" =>
    \A n \in NodesOf(TheTree) :
      TheTree[n].kind = "ListComp" =>
        /\ Cardinality(NestedFindings(n)) = Len(NestedGenerators(TheTree, n))
        /\ \A i \in NestedFindings(n) : all_findings[i].line = TheTree[n].lineno

\* the callee of the call n of t, and its name: the id of a Name, the attr
\* of an Attribute
Callee(t, n) == FieldNodes(t, n, "func")[1]
CalleeName(t, n) == t[Callee(t, n)].name

\* the callee of call n is the attribute attr on the bare name recv
IsAttributeOn(t, n, recv, attr) ==
  /\ t[Callee(t, n)].kind = "Attribute"
  /\ t[Callee(t, n)].name = attr
  /\ t[FieldNodes(t, Callee(t, n), "value")[1]].kind = "Name"
  /\ t[FieldNodes(t, Callee(t, n), "value")[1]].name = recv

\* call n has a keyword argument shell whose value is the literal True
HasShellTrue(t, n) ==
  \E kw \in Seq2Set(FieldNodes(t, n, "keywords")) :
    /\ t[kw].name = nm_shell
    /\ t[FieldNodes(t, kw, "value")[1]].kind = "Constant"
    /\ t[FieldNodes(t, kw, "value")[1]].const = TrueConst

UnsafeProcessTexts ==
  { "os.system() is unsafe - use subprocess with proper argument handling",
    "subprocess with shell=True is vulnerable to injection attacks" }

\* the findings with a text of texts that the callback of node n added
FindingsBy(n, texts) ==
  { i \in 1..Len(all_findings) :
      all_findings[i].issue.text \in texts /\ log[i].by = n }

\* C19: a call, nested in another call or not, has an unsafe-process finding
\* if and only if it is os.system(...) or a call of Popen, call or run with
\* the keyword argument shell=True
C19_UnsafeProcessIff ==
  pc = "return" =>
    \A n \in NodesOf(TheTree) :
      TheTree[n].kind = "Call" =>
        (FindingsBy(n, UnsafeProcessTexts) # {}
         <=> \/ IsAttributeOn(TheTree, n, nm_os, nm_system)
             \/ /\ CalleeName(TheTree, n) \in { nm_Popen, nm_call, nm_run }
                /\ HasShellTrue(TheTree, n))

\* what _check_unsafe_system_calls does: Popen, call and run count only as
\* attributes, of any receiver
UnsafeAttributeOnly ==
  pc = "return" =>
    \A n \in NodesOf(TheTree) :
      TheTree[n].kind = "Call" =>
        Cardinality(FindingsBy(n, UnsafeProcessTexts))
          = IF \/ IsAttributeOn(TheTree, n, nm_os, nm_system)
               \/ /\ TheTree[Callee(TheTree, n)].kind = "Attribute"
                  /\ CalleeName(TheTree, n) \in { nm_Popen, nm_call, nm_run }
                  /\ HasShellTrue(TheTree, n)
            THEN 1 ELSE 0

PickleText == "Use of pickle.loads() can execute arbitrary code from untrusted data"

\* C20: a call has exactly one pickle finding when its callee is pickle.loads,
\* loads on the bare name pickle, or the bare name loads; every other call,
\* loads on another qualifier among them, has none
C20_PickleIff ==
  pc = "return" =>
    \A n \in NodesOf(TheTree) :
      TheTree[n].kind = "Call" =>
        Cardinality(FindingsBy(n, { PickleText }))
          = IF \/ IsAttributeOn(TheTree, n, nm_pickle, nm_loads)
               \/ /\ TheTree[Callee(TheTree, n)].kind = "Name"
                  /\ CalleeName(TheTree, n) = nm_loads
            THEN 1 ELSE 0

\* json.loads(i) on line 1 has no finding and pickle.loads(i), the argument
\* of another call on line 2, has one
C20_Witness ==
  /\ pc = "return"
  /\ \E m, n \in NodesOf(TheTree) :
       /\ TheTree[m].kind = "Call"
       /\ TheTree[m].lineno = 1
       /\ IsAttributeOn(TheTree, m, nm_json, nm_loads)
       /\ FindingsBy(m, { PickleText }) = {}
       /\ TheTree[n].kind = "Call"
       /\ TheTree[n].lineno = 2
       /\ TheTree[n].field = "args"
       /\ IsAttributeOn(TheTree, n, nm_pickle, nm_loads)
       /\ Cardinality(FindingsBy(n, { PickleText })) = 1
       /\ \A i \in FindingsBy(n, { PickleText }) : all_findings[i].line = 2

DefinitionKinds == { "FunctionDef", "AsyncFunctionDef", "ClassDef" }
DocstringTexts ==
  { "Function '{}' is missing a docstring", "Class '{}' is missing a docstring" }

\* the body of definition n opens with a statement that is a string literal
HasLeadingString(t, n) ==
  /\ FieldNodes(t, n, "body") # <<>>
  /\ t[FieldNodes(t, n, "body")[1]].kind = "Expr"
  /\ \E c \in Seq2Set(FieldNodes(t, FieldNodes(t, n, "body")[1], "value")) :
       t[c].kind = "Constant" /\ t[c].const.type = "str"

\* C21: every function definition, async ones included, and every class
\* definition, at any nesting level, has exactly one missing-docstring
\* finding, at its own line, when its name does not start with an underscore
\* and its body does not open with a string literal, and none otherwise
C21_MissingDocstring ==
  pc = "return" =>
    \A n \in NodesOf(TheTree) :
      TheTree[n].kind \in DefinitionKinds =>
        /\ Cardinality(FindingsBy(n, DocstringTexts))
             = IF ~startswith(TheTree[n].name, "_") /\ ~HasLeadingString(TheTree, n)
               THEN 1 ELSE 0
        /\ \A i \in FindingsBy(n, DocstringTexts) :
             all_findings[i].line = TheTree[n].lineno

\* what CodeQualityVisitor does: it has no visit_AsyncFunctionDef, so async
\* definitions are never reported, and a docstring that is empty once
\* cleaned counts as missing
DocstringSyncOnly ==
  pc = "return" =>
    \A n \in NodesOf(TheTree) :
      TheTree[n].kind \in DefinitionKinds =>
        /\ Cardinality(FindingsBy(n, DocstringTexts))
             = IF /\ TheTree[n].kind # "AsyncFunctionDef"
                  /\ ~startswith(TheTree[n].name, "_")
                  /\ (~HasLeadingString(TheTree, n)
                      \/ get_docstring(TheTree, n) = <<>>)
               THEN 1 ELSE 0
        /\ \A i \in FindingsBy(n, DocstringTexts) :
             all_findings[i].line = TheTree[n].lineno

TooLongText == "Function '{}' is too long ({} lines) - consider breaking it down"

\* end line - start line of definition n: the last line of a node under it,
\* less its own line
Span(t, n) ==
  Least({ l \in 0..Len(t) :
            \A m \in NodesOf(t) : Under(t, n, m) => t[m].lineno <= l })
    - t[n].lineno

\* C22: a function, async or not, has a too-long finding if and only if its
\* end line less its start line is strictly greater than 50; the finding is
\* at the function's line and reports that difference as the length
C22_TooLong ==
  pc = "return" =>
    \A n \in NodesOf(TheTree) :
      TheTree[n].kind \in FunctionKinds =>
        /\ Cardinality(FindingsBy(n, { TooLongText }))
             = IF Span(TheTree, n) > 50 THEN 1 ELSE 0
        /\ \A i \in FindingsBy(n, { TooLongText }) :
             /\ all_findings[i].line = TheTree[n].lineno
             /\ all_findings[i].issue.args = << TheTree[n].name, Span(TheTree, n) >>

\* what CodeQualityVisitor does: the length check runs in visit_FunctionDef
\* only, so on the functions defined with a plain def
TooLongOfDef ==
  pc = "return" =>
    \A n \in NodesOf(TheTree) :
      TheTree[n].kind \in FunctionKinds =>
        /\ Cardinality(FindingsBy(n, { TooLongText }))
             = IF TheTree[n].kind = "FunctionDef" /\ Span(TheTree, n) > 50
               THEN 1 ELSE 0
        /\ \A i \in FindingsBy(n, { TooLongText }) :
             /\ all_findings[i].line = TheTree[n].lineno
             /\ all_findings[i].issue.args = << TheTree[n].name, Span(TheTree, n) >>

\* the matches of the text detectors in code, in the order the detectors
\* find them: << message, start of the match >>
Tagged(message, starts) == [ k \in 1..Len(starts) |-> << message, starts[k] >> ]
SecretMatches(code, p) ==
  Tagged(patterns[p].message, SecretFindIter(patterns[p], code, 1))
SqlMatches(code) ==
  Tagged("Potential SQL injection: SQL query uses string concatenation",
         SqlFindIter(code, 1))
TextMatches(code) ==
  Flatten([ p \in 1..Len(patterns) |-> SecretMatches(code, p) ]) \o SqlMatches(code)

\* 1 + the number of line feeds before position m
LineNumber(code, m) == 1 + Cardinality({ k \in 1..(m - 1) : code[k] = "\n" })

\* the line of code that holds position m: from after the line feed before m
\* up to the next line feed
LineAround(code, m) ==
  SubSeq(code,
         Least({ a \in 1..m : \A k \in a..(m - 1) : code[k] # "\n" }),
         Least({ b \in m..(Len(code) + 1) : b = Len(code) + 1 \/ code[b] = "\n" }) - 1)

\* the findings of the text detectors, in output order
TextOutput == SelectSeq(all_findings, LAMBDA f : f.issue.text \in TextIssues)

\* the matches ms of code, whose lines are lines, against the findings out
MatchLines(code, lines, ms, out) ==
  /\ \A k \in 1..Len(ms) : 1 + count(code, ms[k][2] - 1, "\n") \in 1..Len(lines)
  /\ Len(out) = Len(ms)
  /\ \A k \in 1..Len(out) :
       /\ out[k].issue.text = ms[k][1]
       /\ out[k].line = LineNumber(code, ms[k][2])
       /\ out[k].code_snippet = strip(LineAround(code, ms[k][2]))

\* C23: for every match of a secret pattern or of the SQL shape, 1 + the
\* number of line feeds before its start is an index of the text split on
\* line feeds, and the finding of the match has that line number and, as
\* snippet, the trimmed text of the line where the match starts
C23_MatchLineInRange ==
  pc = "return" =>
    MatchLines(Code(TheFile), split(Code(TheFile), "\n"),
               TextMatches(Code(TheFile)), TextOutput)

\* line 1 is if i:, the password assignment starts on the indented line 2
\* and its literal is on line 3, the last one: the finding is at line 2 with
\* the trimmed text of line 2
C23_Witness ==
  /\ pc = "return"
  /\ TheFile.eol = LF
  /\ TheFile.stmts = << Stmt(0, IfStmt), Stmt(1, HalfAssignStmt(nm_password)),
                        Stmt(0, DocStmt(nm_doc)) >>
  /\ Len(TextOutput) = 1
  /\ TextOutput[1].issue.text = "Hardcoded password detected"
  /\ TextOutput[1].line = 2
  /\ TextOutput[1].code_snippet = nm_password \o << " ","=" >>

\* the enhanced findings so far, in the order enhance_findings will return
\* them: the batches done and the batch in progress
Out(r) == r.enhanced \o r.batch

\* the fields of the input finding f are those of the enhanced finding e
SameInput(e, f) ==
  /\ e.file = f.file
  /\ e.line = f.line
  /\ e.issue = f.issue
  /\ e.category = f.category
  /\ e.code_snippet = f.code_snippet
  /\ e.context = f.context

OnePerFinding(out, input, done) ==
  /\ Len(out) <= Len(input)
  /\ done => Len(out) = Len(input)
  /\ \A k \in 1..Len(out) : SameInput(out[k], input[k])

\* one step of enhance_findings: the output so far is one enhanced finding
\* for each of the first input findings, in their order and with their
\* fields, all of them once the call is done, and the step leaves the
\* enhanced findings it found as they were
C24_Step ==
  review'.pc # "idle" =>
    /\ OnePerFinding(Out(review'), results'[run'].findings, review'.pc = "done")
    /\ Len(Out(review')) >= Len(Out(review))
    /\ \A k \in 1..Len(Out(review)) : Out(review')[k] = Out(review)[k]

\* C24: enhance_findings returns one enhanced finding per input finding, in
\* the input order, with the file, line, issue, category, code_snippet and
\* context of its input, for every input length and whichever API calls or
\* answers fail; a failure leaves the other enhanced findings as they are
C24_OnePerFinding == [][C24_Step]_vars

\* six findings, two batches: the answer for finding 1 was no JSON, the API
\* call for finding 4 raised, finding 5 was enhanced, and the call for
\* finding 6, alone in the second batch, raised
C24_Witness ==
  /\ review.pc = "done"
  /\ Len(Reviewed) = batch_size + 1
  /\ Len(review.enhanced) = batch_size + 1
  /\ review.enhanced[1].explanation = JStr(<< "content[:200]" >>)
  /\ review.enhanced[4].explanation = JStr(<< "This issue was detected by static analysis." >>)
  /\ review.enhanced[5].severity = 5
  /\ review.enhanced[batch_size + 1].explanation
       = JStr(<< "This issue was detected by static analysis." >>)
  /\ review.enhanced[batch_size + 1].line = batch_size + 1

\* the sum of the counts of a dict given as its items << key, count >>
RECURSIVE SumCounts(_)
SumCounts(counts) ==
  IF counts = <<>> THEN 0 ELSE Head(counts)[2] + SumCounts(Tail(counts))

ReportSums(report, total) ==
  /\ report.total_issues = total
  /\ report.stats.by_category.security + report.stats.by_category.performance
       + report.stats.by_category.code_quality = report.total_issues
  /\ report.stats.by_severity.critical + report.stats.by_severity.high
       + report.stats.by_severity.medium + report.stats.by_severity.low
       + report.stats.by_severity.info = report.total_issues
  /\ SumCounts(report.stats.by_file) = report.total_issues

\* C25: the report on a list of enhanced findings has total_issues equal to
\* the length of the list, and its counts by category, its counts by
\* severity and its counts by file each sum to total_issues
C25_CountsSumToTotal ==
  review.pc = "reported" => ReportSums(review.report, Len(review.enhanced))

\* a report on findings of two files and of more than one category, with
\* more than one severity, a severity 1 and a severity 5 among them
C25_Witness ==
  /\ review.pc = "reported"
  /\ review.report.total_issues >= 3
  /\ review.report.stats.total_files_analyzed = 2
  /\ review.report.stats.by_file[1][2] >= 2
  /\ review.report.stats.by_category.security >= 1
  /\ review.report.stats.by_category.performance >= 1
  /\ review.report.stats.by_severity.info >= 1
  /\ review.report.stats.by_severity.critical >= 1

====
